---- MODULE Spec2Model ----
(***************************************************************************)
(* Model of datara: the text diff of internal/schema/executor.go, the run  *)
(* of Executor.Execute / generateDiff, and the SQL codec of the datara     *)
(* package (ToSQL, FromSQL, CompareSchema).                                *)
(*                                                                         *)
(* A Go string is a sequence of one-character strings, so that every       *)
(* strings.* call of the source is computed character by character.        *)
(***************************************************************************)
EXTENDS Integers, Sequences, FiniteSets, TLC

(***************************************************************************)
(* Go's strings package, as the source uses it.                            *)
(***************************************************************************)
Min(S) == CHOOSE x \in S : \A y \in S : x <= y

Max(S) == CHOOSE x \in S : \A y \in S : x >= y

\* the white space of strings.TrimSpace and strings.Fields
WhiteSpace == {" ", "\n", "\t", "\r"}

\* strings.Index: the 0-based position of the first occurrence, or -1
Index(s, substr) ==
  LET n == Len(s)
      m == Len(substr)
      hits == IF m = 0 THEN {0}
              ELSE {i \in 0..(n - m) : s[i + 1] = substr[1] /\ SubSeq(s, i + 1, i + m) = substr}
  IN IF hits = {} THEN -1 ELSE Min(hits)

\* strings.LastIndex
LastIndex(s, substr) ==
  LET n == Len(s)
      m == Len(substr)
      hits == IF m = 0 THEN {n}
              ELSE {i \in 0..(n - m) : s[i + 1] = substr[1] /\ SubSeq(s, i + 1, i + m) = substr}
  IN IF hits = {} THEN -1 ELSE Max(hits)

Contains(s, substr) == Index(s, substr) # -1

HasPrefix(s, prefix) ==
  Len(s) >= Len(prefix) /\ SubSeq(s, 1, Len(prefix)) = prefix

HasSuffix(s, suffix) ==
  Len(s) >= Len(suffix) /\ SubSeq(s, Len(s) - Len(suffix) + 1, Len(s)) = suffix

TrimSuffix(s, suffix) ==
  IF HasSuffix(s, suffix) THEN SubSeq(s, 1, Len(s) - Len(suffix)) ELSE s

\* the Go slice s[from:], 0-based
From(s, from) == SubSeq(s, from + 1, Len(s))

\* the Go slice s[from:to], 0-based, to exclusive
Slice(s, from, to) == SubSeq(s, from + 1, to)

\* strings.Trim(s, cutset), cutset given as a set of characters
Trim(s, cutset) ==
  LET RECURSIVE first(_), last(_)
      first(i) == IF i <= Len(s) /\ s[i] \in cutset THEN first(i + 1) ELSE i
      last(j) == IF j >= 1 /\ s[j] \in cutset THEN last(j - 1) ELSE j
  IN SubSeq(s, first(1), last(Len(s)))

\* strings.TrimRight(s, cutset)
TrimRight(s, cutset) ==
  LET RECURSIVE last(_)
      last(j) == IF j >= 1 /\ s[j] \in cutset THEN last(j - 1) ELSE j
  IN SubSeq(s, 1, last(Len(s)))

TrimSpace(s) == Trim(s, WhiteSpace)

\* strings.Split(s, sep) for a non-empty sep
RECURSIVE Split(_, _)
Split(s, sep) ==
  LET i == Index(s, sep)
  IN IF i = -1 THEN <<s>>
     ELSE <<Slice(s, 0, i)>> \o Split(From(s, i + Len(sep)), sep)

\* strings.SplitN(s, sep, 2)
SplitN2(s, sep) ==
  LET i == Index(s, sep)
  IN IF i = -1 THEN <<s>> ELSE <<Slice(s, 0, i), From(s, i + Len(sep))>>

\* strings.Join
RECURSIVE Join(_, _)
Join(elems, sep) ==
  IF Len(elems) = 0 THEN <<>>
  ELSE IF Len(elems) = 1 THEN elems[1]
  ELSE elems[1] \o sep \o Join(Tail(elems), sep)

\* strings.Fields: the maximal runs of non-space characters
RECURSIVE Fields(_)
Fields(s) ==
  LET starts == {i \in 1..Len(s) : s[i] \notin WhiteSpace}
  IN IF starts = {} THEN <<>>
     ELSE LET b == Min(starts)
              ends == {i \in b..Len(s) : s[i] \in WhiteSpace}
              e == IF ends = {} THEN Len(s) + 1 ELSE Min(ends)
          IN <<SubSeq(s, b, e - 1)>> \o Fields(SubSeq(s, e, Len(s)))

\* strings.ReplaceAll / strings.Replace(s, old, new, -1) for a non-empty old
RECURSIVE ReplaceAll(_, _, _)
ReplaceAll(s, old, new) ==
  LET i == Index(s, old)
  IN IF i = -1 THEN s
     ELSE Slice(s, 0, i) \o new \o ReplaceAll(From(s, i + Len(old)), old, new)

LowerLetters == <<"a","b","c","d","e","f","g","h","i","j","k","l","m","n","o","p","q","r","s","t","u","v","w","x","y","z">>

UpperLetters == <<"A","B","C","D","E","F","G","H","I","J","K","L","M","N","O","P","Q","R","S","T","U","V","W","X","Y","Z">>

\* strings.ToUpper
ToUpper(s) ==
  [i \in 1..Len(s) |->
     IF \E k \in 1..Len(LowerLetters) : LowerLetters[k] = s[i]
     THEN UpperLetters[CHOOSE k \in 1..Len(LowerLetters) : LowerLetters[k] = s[i]]
     ELSE s[i]]

\* fmt's %q: the Go-quoted form of a string
RECURSIVE QuoteBody(_)
QuoteBody(s) ==
  IF Len(s) = 0 THEN <<>>
  ELSE (IF s[1] = "\"" THEN <<"\\", "\"">>
        ELSE IF s[1] = "\\" THEN <<"\\", "\\">>
        ELSE IF s[1] = "\n" THEN <<"\\", "n">>
        ELSE IF s[1] = "\t" THEN <<"\\", "t">>
        ELSE IF s[1] = "\r" THEN <<"\\", "r">>
        ELSE <<s[1]>>) \o QuoteBody(Tail(s))

Quote(s) == <<"\"">> \o QuoteBody(s) \o <<"\"">>

\* the grave accent (the quote of MySQL identifiers): SANY cannot read that
\* character inside a string, so it is the one character written as a name
BQ == "BACKQUOTE"

\* the byte order of the characters the model's texts are made of (ASCII)
AsciiOrder == <<"\t","\n","\r"," ","\"","%","'","(",")",",","-",".","0","1","2","3","4","5","6","7","8","9",":",";","=","A","B","C","D","E","F","G","H","I","J","K","L","M","N","O","P","Q","R","S","T","U","V","W","X","Y","Z","[","\\","]","_",BQ,"a","b","c","d","e","f","g","h","i","j","k","l","m","n","o","p","q","r","s","t","u","v","w","x","y","z">>

\* Go's string comparison a < b (bytewise lexicographic)
StrLess(a, b) ==
  LET Ord(c) == CHOOSE k \in 1..Len(AsciiOrder) : AsciiOrder[k] = c
      n == IF Len(a) < Len(b) THEN Len(a) ELSE Len(b)
      diff == {i \in 1..n : a[i] # b[i]}
  IN IF diff = {} THEN Len(a) < Len(b)
     ELSE Ord(a[Min(diff)]) < Ord(b[Min(diff)])

\* sort.Strings: ascending, equal strings kept
RECURSIVE SortStrings(_)
SortStrings(xs) ==
  IF Len(xs) <= 1 THEN xs
  ELSE LET m == CHOOSE i \in 1..Len(xs) : \A j \in 1..Len(xs) : ~StrLess(xs[j], xs[i])
       IN <<xs[m]>> \o SortStrings(SubSeq(xs, 1, m - 1) \o SubSeq(xs, m + 1, Len(xs)))

\* strconv / %d for an integer
RECURSIVE Itoa(_)
Itoa(n) ==
  LET digits == <<"0","1","2","3","4","5","6","7","8","9">>
  IN IF n < 0 THEN <<"-">> \o Itoa(0 - n)
     ELSE IF n < 10 THEN <<digits[n + 1]>>
     ELSE Itoa(n \div 10) \o <<digits[(n % 10) + 1]>>

(***************************************************************************)
(* Go maps. A map[string]string is a function on the set of its keys.      *)
(* `range` over a map visits the keys in an order the language leaves      *)
(* unspecified: an iteration is one of the enumerations Perms gives.       *)
(***************************************************************************)
EmptyMap == [k \in {} |-> <<>>]

MapPut(m, k, v) == [x \in (DOMAIN m) \cup {k} |-> IF x = k THEN v ELSE m[x]]

Perms(S) ==
  {p \in [1..Cardinality(S) -> S] : \A i, j \in 1..Cardinality(S) : i # j => p[i] # p[j]}

(***************************************************************************)
(* internal/schema/executor.go: the diff of two DDL texts.                 *)
(***************************************************************************)
\* a faulty extractTableName, which leaves the quotes on the name
extractTableNameQuoted(stmt) ==
  LET parts == Split(stmt, <<" ">>)
      at == {i \in 1..Len(parts) : parts[i] = <<"T","A","B","L","E">> /\ i + 1 <= Len(parts)}
  IN IF at = {} THEN <<>>
     ELSE Trim(parts[Min(at) + 1], {"(", ")", " "})

\* extractTableName: the word after TABLE, without quotes and parentheses
extractTableName(stmt) ==
  LET parts == Split(stmt, <<" ">>)
      at == {i \in 1..Len(parts) : parts[i] = <<"T","A","B","L","E">> /\ i + 1 <= Len(parts)}
  IN IF at = {} THEN <<>>
     ELSE Trim(parts[Min(at) + 1], {"\"", "(", ")", " "})

\* whether parseTables takes a statement for a table definition
IsCreateTable(stmt) == HasPrefix(stmt, <<"C","R","E","A","T","E"," ","T","A","B","L","E">>)

\* parseTables: table name -> CREATE TABLE statement (a later one replaces an earlier)
RECURSIVE parseTablesFrom(_, _, _)
parseTablesFrom(statements, i, tables) ==
  IF i > Len(statements) THEN tables
  ELSE LET stmt == TrimSpace(statements[i])
           tableName == extractTableName(stmt)
       IN IF stmt # <<>> /\ IsCreateTable(stmt) /\ tableName # <<>>
          THEN parseTablesFrom(statements, i + 1, MapPut(tables, tableName, stmt))
          ELSE parseTablesFrom(statements, i + 1, tables)

parseTables(schema) == parseTablesFrom(Split(schema, <<";">>), 1, EmptyMap)

\* splitKeepingParentheses: split at the commas outside parentheses.  The
\* loop's parenCount when it reads character i is the number of ( less the
\* number of ) before i; a comma read at parenCount 0 ends an entry, and what
\* follows the last such comma is an entry when it is not empty
parenCountAt(s, i) ==
  Cardinality({j \in 1..(i - 1) : s[j] = "("}) - Cardinality({j \in 1..(i - 1) : s[j] = ")"})

splitKeepingParentheses(s) ==
  LET cuts == {i \in 1..Len(s) : s[i] = "," /\ parenCountAt(s, i) = 0}
      n == Cardinality(cuts)
      cut(k) == IF k = 0 THEN 0
                ELSE IF k = n + 1 THEN Len(s) + 1
                ELSE CHOOSE i \in cuts : Cardinality({j \in cuts : j <= i}) = k
      pieces == [k \in 1..(n + 1) |-> SubSeq(s, cut(k - 1) + 1, cut(k) - 1)]
  IN IF pieces[n + 1] = <<>> THEN SubSeq(pieces, 1, n) ELSE pieces

\* parseColumns, the decimal branch: the definition rebuilt as `name decimal(p,s) default`
decimalColumnDef(colName, rest) ==
  LET precisionStart == Index(rest, <<"(">>)
      precisionEnd == LastIndex(rest, <<")">>)
      precisionParts == Split(Slice(rest, precisionStart + 1, precisionEnd), <<",">>)
      defaultValue == IF precisionEnd + 1 < Len(rest)
                      THEN TrimSpace(From(rest, precisionEnd + 1)) ELSE <<>>
      rebuilt == IF precisionStart # -1 /\ precisionEnd # -1 /\ Len(precisionParts) = 2
                 THEN <<"d","e","c","i","m","a","l","(">> \o TrimSpace(precisionParts[1]) \o <<",">>
                      \o TrimSpace(precisionParts[2]) \o <<")"," ">> \o defaultValue
                 ELSE rest
  IN colName \o <<" ">> \o rebuilt

\* parseColumns: column name -> column definition, of one CREATE TABLE statement
RECURSIVE parseColumnsFrom(_, _, _)
parseColumnsFrom(columnDefs, i, columns) ==
  IF i > Len(columnDefs) THEN columns
  ELSE LET colDef == TrimSpace(columnDefs[i])
           parts == SplitN2(colDef, <<" ">>)
           name == Trim(parts[1], {"\""})
       IN IF colDef = <<>> \/ HasPrefix(colDef, <<"P","R","I","M","A","R","Y"," ","K","E","Y">>)
          THEN parseColumnsFrom(columnDefs, i + 1, columns)
          ELSE IF Contains(colDef, <<"d","e","c","i","m","a","l","(">>) /\ Len(parts) = 2
          THEN parseColumnsFrom(columnDefs, i + 1,
                                MapPut(columns, name, decimalColumnDef(name, parts[2])))
          ELSE IF Len(parts) = 2
          THEN parseColumnsFrom(columnDefs, i + 1, MapPut(columns, name, colDef))
          ELSE parseColumnsFrom(columnDefs, i + 1, columns)

parseColumns(tableDef) ==
  LET start == Index(tableDef, <<"(">>)
      end == LastIndex(tableDef, <<")">>)
  IN IF start = -1 \/ end = -1 THEN EmptyMap
     ELSE parseColumnsFrom(splitKeepingParentheses(Slice(tableDef, start + 1, end)), 1, EmptyMap)

\* a faulty cleanColumnDef, which keeps only the word after the column name
cleanColumnDefTypeOnly(def) ==
  LET d == TrimRight(TrimSpace(def), {";"})
      parts == Split(d, <<" ">>)
  IN IF Contains(d, <<"d","e","c","i","m","a","l","(">>) /\ Len(parts) >= 2
     THEN parts[1] \o <<" ">>
          \o ReplaceAll(ReplaceAll(parts[2], <<"d","e","c","i","m","a","l","(">>, <<"d","e","c","i","m","a","l"," ","(">>), <<",">>, <<","," ">>)
     ELSE d

\* cleanColumnDef: the definition an ADD COLUMN of the up list carries
cleanColumnDef(def) ==
  LET d == TrimRight(TrimSpace(def), {";"})
      parts == SplitN2(d, <<" ">>)
  IN IF Contains(d, <<"d","e","c","i","m","a","l","(">>) /\ Len(parts) = 2
     THEN parts[1] \o <<" ">>
          \o ReplaceAll(ReplaceAll(parts[2], <<"d","e","c","i","m","a","l","(">>, <<"d","e","c","i","m","a","l"," ","(">>), <<",">>, <<","," ">>)
     ELSE d

\* a faulty extractColumnType, which keeps the qualifiers after the type
extractColumnTypeWithQualifiers(colDef) ==
  LET parts == SplitN2(colDef, <<" ">>)
  IN IF Len(parts) # 2 THEN <<>> ELSE parts[2]

\* extractColumnType: the word after the column name
extractColumnType(colDef) ==
  LET parts == SplitN2(colDef, <<" ">>)
  IN IF Len(parts) # 2 THEN <<>> ELSE Split(parts[2], <<" ">>)[1]

\* a faulty DROP TABLE statement, without CASCADE
DropTableStmtNoCascade(tableName) == <<"D","R","O","P"," ","T","A","B","L","E"," ","I","F"," ","E","X","I","S","T","S"," ">> \o Quote(tableName)

\* the statements of the diff
DropTableStmt(tableName) == <<"D","R","O","P"," ","T","A","B","L","E"," ","I","F"," ","E","X","I","S","T","S"," ">> \o Quote(tableName) \o <<" ","C","A","S","C","A","D","E">>

AddColumnStmt(tableName, colDef) ==
  <<"A","L","T","E","R"," ","T","A","B","L","E"," ">> \o Quote(tableName) \o <<" ","A","D","D"," ","C","O","L","U","M","N"," ">> \o colDef

DropColumnStmt(tableName, colName) ==
  <<"A","L","T","E","R"," ","T","A","B","L","E"," ">> \o Quote(tableName) \o <<" ","D","R","O","P"," ","C","O","L","U","M","N"," ">> \o Quote(colName)

AlterColumnTypeStmt(tableName, colName, type) ==
  <<"A","L","T","E","R"," ","T","A","B","L","E"," ">> \o Quote(tableName) \o <<" ","A","L","T","E","R"," ","C","O","L","U","M","N"," ">> \o Quote(colName)
  \o <<" ","T","Y","P","E"," ">> \o type

\* a faulty step 3, which reports every column of both definitions
ColumnModifiedAlways(oldColDef, newColDef) == TRUE

\* compareTableDefinitions, step 3: whether a column of both definitions is reported
ColumnModified(oldColDef, newColDef) == oldColDef # newColDef

\* a faulty compareTableDefinitions, whose loop over the new columns runs first
compareTableDefinitionsInAddFirst(tableName, oldDef, newDef, dropOrder, addOrder, modOrder) ==
  LET oldColumns == parseColumns(oldDef)
      newColumns == parseColumns(newDef)
      upDrop == [i \in 1..Len(dropOrder) |-> DropColumnStmt(tableName, dropOrder[i])]
      downDrop == [i \in 1..Len(dropOrder) |->
                     AddColumnStmt(tableName, oldColumns[dropOrder[i]])]
      upAdd == [i \in 1..Len(addOrder) |->
                  AddColumnStmt(tableName, cleanColumnDef(newColumns[addOrder[i]]))]
      downAdd == [i \in 1..Len(addOrder) |-> DropColumnStmt(tableName, addOrder[i])]
      upMod == [i \in 1..Len(modOrder) |->
                  AlterColumnTypeStmt(tableName, modOrder[i],
                                      extractColumnType(newColumns[modOrder[i]]))]
      downMod == [i \in 1..Len(modOrder) |->
                    AlterColumnTypeStmt(tableName, modOrder[i],
                                        extractColumnType(oldColumns[modOrder[i]]))]
  IN [up |-> upAdd \o upDrop \o upMod, down |-> downAdd \o downDrop \o downMod]

\* compareTableDefinitions for one iteration order of each of its three loops:
\* dropOrder, addOrder, modOrder enumerate the keys for which the loop body emits
compareTableDefinitionsIn(tableName, oldDef, newDef, dropOrder, addOrder, modOrder) ==
  LET oldColumns == parseColumns(oldDef)
      newColumns == parseColumns(newDef)
      upDrop == [i \in 1..Len(dropOrder) |-> DropColumnStmt(tableName, dropOrder[i])]
      downDrop == [i \in 1..Len(dropOrder) |->
                     AddColumnStmt(tableName, oldColumns[dropOrder[i]])]
      upAdd == [i \in 1..Len(addOrder) |->
                  AddColumnStmt(tableName, cleanColumnDef(newColumns[addOrder[i]]))]
      downAdd == [i \in 1..Len(addOrder) |-> DropColumnStmt(tableName, addOrder[i])]
      upMod == [i \in 1..Len(modOrder) |->
                  AlterColumnTypeStmt(tableName, modOrder[i],
                                      extractColumnType(newColumns[modOrder[i]]))]
      downMod == [i \in 1..Len(modOrder) |->
                    AlterColumnTypeStmt(tableName, modOrder[i],
                                        extractColumnType(oldColumns[modOrder[i]]))]
  IN [up |-> upDrop \o upAdd \o upMod, down |-> downDrop \o downAdd \o downMod]

\* compareTableDefinitions: every (upStatements, downStatements) an execution can return
compareTableDefinitions(tableName, oldDef, newDef) ==
  LET oldColumns == parseColumns(oldDef)
      newColumns == parseColumns(newDef)
      dropped == (DOMAIN oldColumns) \ (DOMAIN newColumns)
      added == (DOMAIN newColumns) \ (DOMAIN oldColumns)
      modified == {c \in (DOMAIN newColumns) \cap (DOMAIN oldColumns) :
                     ColumnModified(oldColumns[c], newColumns[c])}
  IN {compareTableDefinitionsIn(tableName, oldDef, newDef, d, a, m) :
        d \in Perms(dropped), a \in Perms(added), m \in Perms(modified)}

\* generateSchemaDiff, step 3 along one iteration order of the tables of both schemas
\* (outcomes[t] is what compareTableDefinitions can return for table t)
RECURSIVE modifiedTablesFrom(_, _, _)
modifiedTablesFrom(order, i, outcomes) ==
  IF i > Len(order) THEN {[up |-> <<>>, down |-> <<>>]}
  ELSE {[up |-> r.up \o rest.up, down |-> r.down \o rest.down] :
          r \in outcomes[order[i]],
          rest \in modifiedTablesFrom(order, i + 1, outcomes)}

\* generateSchemaDiff, the returned pair of texts
joinStatements(ups, downs) ==
  IF Len(ups) = 0 THEN [upSQL |-> <<>>, downSQL |-> <<>>]
  ELSE [upSQL |-> Join(ups, <<";","\n">>) \o <<";">>,
        downSQL |-> Join(downs, <<";","\n">>) \o <<";">>]

\* generateSchemaDiff: every result an execution can return, with the statement lists
generateSchemaDiff(oldSchemaText, newSchemaText) ==
  LET oldTables == parseTables(oldSchemaText)
      newTables == parseTables(newSchemaText)
      dropped == (DOMAIN oldTables) \ (DOMAIN newTables)
      added == (DOMAIN newTables) \ (DOMAIN oldTables)
      both == (DOMAIN newTables) \cap (DOMAIN oldTables)
      perTable == [t \in both |-> compareTableDefinitions(t, oldTables[t], newTables[t])]
      upDropped(o) == [i \in 1..Len(o) |-> DropTableStmt(o[i])]
      downDropped(o) == [i \in 1..Len(o) |-> oldTables[o[i]]]
      upAdded(o) == [i \in 1..Len(o) |-> newTables[o[i]]]
      downAdded(o) == [i \in 1..Len(o) |-> DropTableStmt(o[i])]
  IN {LET up == upDropped(d) \o upAdded(a) \o m.up
          down == downDropped(d) \o downAdded(a) \o m.down
          joined == joinStatements(up, down)
      IN [upStatements |-> up, downStatements |-> down,
          upSQL |-> joined.upSQL, downSQL |-> joined.downSQL] :
        d \in Perms(dropped), a \in Perms(added),
        m \in UNION {modifiedTablesFrom(o, 1, perTable) : o \in Perms(both)}}

\* cleanOutput
RECURSIVE nonEmptyTrimmed(_)
nonEmptyTrimmed(lines) ==
  IF Len(lines) = 0 THEN <<>>
  ELSE (IF TrimSpace(lines[1]) # <<>> THEN <<TrimSpace(lines[1])>> ELSE <<>>)
       \o nonEmptyTrimmed(Tail(lines))

cleanOutput(sql) ==
  Join(nonEmptyTrimmed(Split(TrimRight(sql, {"%", " ", "\t", "\n", "\r"}), <<"\n">>)), <<"\n">>)

\* formatCreateTable: one column entry per line
formatCreateTable(sql) ==
  LET parts == SplitN2(sql, <<"(">>)
      tableDef == TrimSpace(parts[1])
      columnDefs == TrimSpace(TrimSuffix(parts[2], <<")">>))
      columns == Split(columnDefs, <<",">>)
      formattedColumns == [i \in 1..Len(columns) |-> <<" "," ">> \o TrimSpace(columns[i])]
  IN IF Len(parts) # 2 THEN sql
     ELSE tableDef \o <<" ","(","\n">> \o Join(formattedColumns, <<",","\n">>) \o <<"\n",")">>

\* formatCreateIndex
formatCreateIndex(sql) == TrimSpace(sql)

\* formatSQL
RECURSIVE formatStatements(_)
formatStatements(statements) ==
  IF Len(statements) = 0 THEN <<>>
  ELSE LET stmt == TrimSpace(statements[1])
       IN (IF stmt = <<>> THEN <<>>
           ELSE IF HasPrefix(stmt, <<"C","R","E","A","T","E"," ","T","A","B","L","E">>) THEN <<formatCreateTable(stmt)>>
           ELSE IF HasPrefix(stmt, <<"C","R","E","A","T","E">>) THEN <<formatCreateIndex(stmt)>>
           ELSE <<stmt>>) \o formatStatements(Tail(statements))

formatSQL(sql) == Join(formatStatements(Split(sql, <<";">>)), <<";","\n","\n">>) \o <<";">>

\* normalizeSchema: the statements grouped by kind, each group sorted
RECURSIVE statementsWith(_, _, _)
statementsWith(statements, i, group) ==
  IF i > Len(statements) THEN <<>>
  ELSE LET stmt == TrimSpace(statements[i])
           kind == IF HasPrefix(stmt, <<"C","R","E","A","T","E"," ","T","A","B","L","E">>) THEN "creates"
                   ELSE IF HasPrefix(stmt, <<"C","R","E","A","T","E"," ","U","N","I","Q","U","E"," ","I","N","D","E","X">>)
                           \/ HasPrefix(stmt, <<"C","R","E","A","T","E"," ","I","N","D","E","X">>) THEN "indexes"
                   ELSE "others"
       IN (IF stmt # <<>> /\ kind = group THEN <<stmt>> ELSE <<>>)
          \o statementsWith(statements, i + 1, group)

normalizeSchema(schema) ==
  LET statements == Split(schema, <<";">>)
  IN Join(SortStrings(statementsWith(statements, 1, "creates"))
          \o SortStrings(statementsWith(statements, 1, "indexes"))
          \o SortStrings(statementsWith(statements, 1, "others")), <<";","\n">>) \o <<";">>

\* calculateHash: SHA-256 in hex. The digest is not computed: a hash is the
\* tagged text, so two hashes are equal exactly when the hashed texts are
calculateHash(s) == <<"sha256", s>>

\* formatMigration
formatMigration(up, down) ==
  <<"-","-"," ","m","i","g","r","a","t","e",":","u","p","\n","\n">> \o up \o <<"\n","\n","-","-"," ","m","i","g","r","a","t","e",":","d","o","w","n","\n","\n">> \o down

(***************************************************************************)
(* The schema program (the oracle) and what it prints.  The diff pipeline   *)
(* is fed gormschema's PostgreSQL statements: one CREATE TABLE per model,   *)
(* its entries separated by commas, and CREATE INDEX statements, each       *)
(* statement ended by a semicolon and a line break.                        *)
(***************************************************************************)
\* the most tables one schema of the model declares
MaxTables == 2

\* the table definitions the oracle's models can produce
TableVariants ==
  << [name |-> <<"u","s","e","r","s">>,
      entries |-> <<<<"\"","i","d","\""," ","b","i","g","s","e","r","i","a","l">>, <<"\"","n","a","m","e","\""," ","v","a","r","c","h","a","r","(","1","0","0",")"," ","N","O","T"," ","N","U","L","L">>,
                    <<"P","R","I","M","A","R","Y"," ","K","E","Y"," ","(","\"","i","d","\"",")">>>>],
     [name |-> <<"u","s","e","r","s">>,
      entries |-> <<<<"\"","i","d","\""," ","b","i","g","s","e","r","i","a","l">>, <<"\"","n","a","m","e","\""," ","v","a","r","c","h","a","r","(","1","0","0",")">>,
                    <<"\"","e","m","a","i","l","\""," ","v","a","r","c","h","a","r","(","2","5","5",")">>, <<"P","R","I","M","A","R","Y"," ","K","E","Y"," ","(","\"","i","d","\"",")">>>>],
     [name |-> <<"u","s","e","r","s">>,
      entries |-> <<<<"\"","i","d","\""," ","b","i","g","s","e","r","i","a","l">>, <<"\"","n","a","m","e","\""," ","t","e","x","t"," ","N","O","T"," ","N","U","L","L">>, <<"\"","n","i","c","k","\""," ","t","e","x","t">>,
                    <<"P","R","I","M","A","R","Y"," ","K","E","Y"," ","(","\"","i","d","\"",")">>>>],
     [name |-> <<"p","r","o","f","i","l","e","s">>,
      entries |-> <<<<"\"","i","d","\""," ","b","i","g","s","e","r","i","a","l">>, <<"\"","s","c","o","r","e","\""," ","d","e","c","i","m","a","l","(","1","0",",","2",")"," ","D","E","F","A","U","L","T"," ","0">>,
                    <<"P","R","I","M","A","R","Y"," ","K","E","Y"," ","(","\"","i","d","\"",")">>>>],
     [name |-> <<"p","r","o","f","i","l","e","s">>,
      entries |-> <<<<"\"","i","d","\""," ","b","i","g","s","e","r","i","a","l">>, <<"P","R","I","M","A","R","Y"," ","K","E","Y"," ","(","\"","i","d","\"",")">>>>],
     [name |-> <<"t","a","g","s">>,
      entries |-> <<<<"\"","i","d","\""," ","b","i","g","s","e","r","i","a","l">>, <<"\"","l","a","b","e","l","\""," ","t","e","x","t">>>>] >>

\* a statement of the oracle that declares no table
IndexStatement == <<"C","R","E","A","T","E"," ","I","N","D","E","X"," ","\"","i","d","x","_","t","a","g","s","_","l","a","b","e","l","\""," ","O","N"," ","\"","t","a","g","s","\""," ","(","\"","l","a","b","e","l","\"",")">>

\* a schema of the oracle: table definitions with distinct names, in the order
\* of the models, and whether the index statement follows them
OracleSchemas ==
  {[tables |-> t, index |-> x] :
     t \in {s \in SUBSET (1..Len(TableVariants)) :
              /\ Cardinality(s) <= MaxTables
              /\ \A i, j \in s : i # j => TableVariants[i].name # TableVariants[j].name},
     x \in BOOLEAN}

\* the names of the tables a schema declares
DeclaredTables(schema) == {TableVariants[i].name : i \in schema.tables}

\* the CREATE TABLE statement of one table definition, as the oracle prints it
OracleCreateTable(v) ==
  <<"C","R","E","A","T","E"," ","T","A","B","L","E"," ">> \o Quote(v.name) \o <<" ","(">> \o Join(v.entries, <<",">>) \o <<")">>

\* the oracle's standard output for a schema
RECURSIVE OracleStatements(_, _)
OracleStatements(schema, i) ==
  IF i > Len(TableVariants) THEN (IF schema.index THEN <<IndexStatement>> ELSE <<>>)
  ELSE (IF i \in schema.tables THEN <<OracleCreateTable(TableVariants[i])>> ELSE <<>>)
       \o OracleStatements(schema, i + 1)

RECURSIVE Terminated(_)
Terminated(statements) ==
  IF Len(statements) = 0 THEN <<>>
  ELSE statements[1] \o <<";","\n">> \o Terminated(Tail(statements))

OracleOutput(schema) == Terminated(OracleStatements(schema, 1))

(***************************************************************************)
(* Package datara: the schema model and its SQL codec.                     *)
(***************************************************************************)
\* Column.Default is an interface{}: nil, a string, a bool, an int or a
\* float64 (held in millionths, the precision %f prints)
NoDefault == [kind |-> "nil", str |-> <<>>, num |-> 0]

StringDefault(s) == [kind |-> "string", str |-> s, num |-> 0]

BoolDefault(b) == [kind |-> "bool", str |-> <<>>, num |-> IF b THEN 1 ELSE 0]

IntDefault(n) == [kind |-> "int", str |-> <<>>, num |-> n]

Float64Default(millionths) == [kind |-> "float64", str |-> <<>>, num |-> millionths]

Column(name, type, nullable, autoIncrement, default) ==
  [Name |-> name, Type |-> type, Length |-> 0, Nullable |-> nullable,
   Default |-> default, AutoIncrement |-> autoIncrement]

TableIndex(name, columns, unique) ==
  [Name |-> name, Columns |-> columns, Type |-> <<"B","T","R","E","E">>, Unique |-> unique]

ForeignKey(name, columns, referenceTable, referenceColumns, onDelete, onUpdate) ==
  [Name |-> name, Columns |-> columns, ReferenceTable |-> referenceTable,
   ReferenceColumns |-> referenceColumns, OnDelete |-> onDelete, OnUpdate |-> onUpdate]

\* Table.PrimaryKey is a pointer: nil, or a key
NilPrimaryKey == [nil |-> TRUE, Name |-> <<>>, Columns |-> <<>>]

PrimaryKey(name, columns) == [nil |-> FALSE, Name |-> name, Columns |-> columns]

Table(name, columns, indexes, foreignKeys, primaryKey) ==
  [Name |-> name, Columns |-> columns, Indexes |-> indexes,
   ForeignKeys |-> foreignKeys, PrimaryKey |-> primaryKey]

EmptySchema == [Tables |-> <<>>]

\* the elements of seq at the positions of keep, in order
Sub(seq, keep) ==
  LET n == Cardinality(keep)
      nth(k) == CHOOSE i \in keep : Cardinality({j \in keep : j <= i}) = k
  IN [k \in 1..n |-> seq[nth(k)]]

\* fmt's %f of a non-negative float64 given in millionths
FormatFloat(millionths) ==
  LET frac == Itoa(millionths % 1000000)
      zeros == [i \in 1..(6 - Len(frac)) |-> "0"]
  IN Itoa(millionths \div 1000000) \o <<".">> \o zeros \o frac

\* createTableSQL: the type of a column
columnTypeSQL(type) ==
  IF HasSuffix(type, <<"U","N","S","I","G","N","E","D">>)
  THEN TrimSuffix(type, <<" ","U","N","S","I","G","N","E","D">>) \o <<" ","U","N","S","I","G","N","E","D">>
  ELSE type

\* createTableSQL: the DEFAULT clause of a column
defaultSQL(d) ==
  IF d.kind = "string"
  THEN IF d.str = <<"C","U","R","R","E","N","T","_","T","I","M","E","S","T","A","M","P">> \/ Contains(d.str, <<"C","U","R","R","E","N","T","_","T","I","M","E","S","T","A","M","P"," ","O","N"," ","U","P","D","A","T","E">>)
       THEN <<" ","D","E","F","A","U","L","T"," ">> \o d.str
       ELSE <<" ","D","E","F","A","U","L","T"," ","'">> \o ReplaceAll(d.str, <<"'">>, <<"'","'">>) \o <<"'">>
  ELSE IF d.kind = "bool" THEN (IF d.num = 1 THEN <<" ","D","E","F","A","U","L","T"," ","1">> ELSE <<" ","D","E","F","A","U","L","T"," ","0">>)
  ELSE IF d.kind = "int" THEN <<" ","D","E","F","A","U","L","T"," ">> \o Itoa(d.num)
  ELSE IF d.kind = "float64" THEN <<" ","D","E","F","A","U","L","T"," ">> \o FormatFloat(d.num)
  ELSE <<>>

\* createTableSQL: the line of one column, without the separator
columnSQL(column) ==
  <<" "," ",BQ>> \o column.Name \o <<BQ," ">> \o columnTypeSQL(column.Type)
  \o (IF column.Nullable THEN <<" ","N","U","L","L">> ELSE <<" ","N","O","T"," ","N","U","L","L">>)
  \o (IF column.AutoIncrement THEN <<" ","A","U","T","O","_","I","N","C","R","E","M","E","N","T">> ELSE <<>>)
  \o defaultSQL(column.Default)

\* createTableSQL: the PRIMARY KEY entry
primaryKeySQL(table) ==
  IF ~table.PrimaryKey.nil /\ Len(table.PrimaryKey.Columns) > 0
  THEN <<",","\n"," "," ","P","R","I","M","A","R","Y"," ","K","E","Y"," ","(",BQ>> \o Join(table.PrimaryKey.Columns, <<BQ,",",BQ>>) \o <<BQ,")">>
  ELSE <<>>

\* createTableSQL: the indexes written, the unique ones first, an index
\* left out when one over the same columns was written before it
emittedIndexes(table) ==
  LET ordered == SelectSeq(table.Indexes, LAMBDA x : x.Unique)
                 \o SelectSeq(table.Indexes, LAMBDA x : ~x.Unique)
      indexKey(i) == Join(ordered[i].Columns, <<"_">>)
  IN Sub(ordered, {i \in 1..Len(ordered) : \A j \in 1..(i - 1) : indexKey(j) # indexKey(i)})

indexSQL(index) ==
  <<",","\n"," "," ">> \o (IF index.Unique THEN <<"U","N","I","Q","U","E"," ","K","E","Y"," ",BQ>> ELSE <<"K","E","Y"," ",BQ>>) \o index.Name
  \o <<BQ," ","(",BQ>> \o Join(index.Columns, <<BQ,",",BQ>>) \o <<BQ,")">>

\* createTableSQL: the foreign keys written, one per (referenced table, columns)
emittedForeignKeys(table) ==
  LET fks == table.ForeignKeys
      fkKey(i) == fks[i].ReferenceTable \o <<"_">> \o Join(fks[i].Columns, <<"_">>)
  IN Sub(fks, {i \in 1..Len(fks) : \A j \in 1..(i - 1) : fkKey(j) # fkKey(i)})

foreignKeySQL(fk) ==
  <<",","\n"," "," ","C","O","N","S","T","R","A","I","N","T"," ",BQ>> \o fk.Name \o <<BQ," ","F","O","R","E","I","G","N"," ","K","E","Y"," ","(",BQ>> \o Join(fk.Columns, <<BQ,",",BQ>>)
  \o <<BQ,")"," ","R","E","F","E","R","E","N","C","E","S"," ",BQ>> \o fk.ReferenceTable \o <<BQ," ","(",BQ>>
  \o Join(fk.ReferenceColumns, <<BQ,",",BQ>>) \o <<BQ,")">>
  \o (IF fk.OnDelete # <<>> THEN <<" ","O","N"," ","D","E","L","E","T","E"," ">> \o fk.OnDelete ELSE <<>>)
  \o (IF fk.OnUpdate # <<>> THEN <<" ","O","N"," ","U","P","D","A","T","E"," ">> \o fk.OnUpdate ELSE <<>>)

createTableSQL(table) ==
  LET indexes == emittedIndexes(table)
      fks == emittedForeignKeys(table)
  IN <<"C","R","E","A","T","E"," ","T","A","B","L","E"," ",BQ>> \o table.Name \o <<BQ," ","(","\n">>
     \o Join([i \in 1..Len(table.Columns) |-> columnSQL(table.Columns[i])], <<",","\n">>)
     \o primaryKeySQL(table)
     \o Join([i \in 1..Len(indexes) |-> indexSQL(indexes[i])], <<>>)
     \o Join([i \in 1..Len(fks) |-> foreignKeySQL(fks[i])], <<>>)
     \o <<"\n",")"," ","E","N","G","I","N","E","=","I","n","n","o","D","B"," ","D","E","F","A","U","L","T"," ","C","H","A","R","S","E","T","=","u","t","f","8","m","b","4"," ","C","O","L","L","A","T","E","=","u","t","f","8","m","b","4","_","u","n","i","c","o","d","e","_","c","i",";">>

\* a faulty ToDownSQL, which drops the tables in the order of the Schema
ToDownSQLForward(s) ==
  LET n == Len(s.Tables)
  IN Join([k \in 1..n |-> <<"D","R","O","P"," ","T","A","B","L","E"," ","I","F"," ","E","X","I","S","T","S"," ",BQ>> \o s.Tables[k].Name \o <<BQ,";">>],
          <<"\n">>)

\* ToDownSQL: the tables dropped in reverse order
ToDownSQL(s) ==
  LET n == Len(s.Tables)
  IN Join([k \in 1..n |-> <<"D","R","O","P"," ","T","A","B","L","E"," ","I","F"," ","E","X","I","S","T","S"," ",BQ>> \o s.Tables[n + 1 - k].Name \o <<BQ,";">>],
          <<"\n">>)

ToSQL(s) ==
  <<"-","-"," ","m","i","g","r","a","t","e",":","u","p","\n","\n">>
  \o Join([i \in 1..Len(s.Tables) |-> createTableSQL(s.Tables[i])], <<"\n","\n">>)
  \o <<"\n","\n","-","-"," ","m","i","g","r","a","t","e",":","d","o","w","n","\n","\n">> \o ToDownSQL(s)

\* a faulty betweenBackticks, which takes the grave accents with the name
betweenBackticksInclusive(s) ==
  LET start == Index(s, <<BQ>>)
      end == IF start = -1 THEN -1 ELSE Index(From(s, start + 1), <<BQ>>)
  IN IF start # -1 /\ end # -1 THEN Slice(s, start, start + 2 + end) ELSE <<>>

\* FromSQL: the text between the first two grave accents of s, "" without them
betweenBackticks(s) ==
  LET start == Index(s, <<BQ>>)
      end == IF start = -1 THEN -1 ELSE Index(From(s, start + 1), <<BQ>>)
  IN IF start # -1 /\ end # -1 THEN Slice(s, start + 1, start + 1 + end) ELSE <<>>

\* FromSQL: the column list between the first ( at or after start and the
\* next ): the grave accents removed, split on ", "
parenColumns(s, start) ==
  LET keyStart == Index(From(s, start), <<"(">>)
      keyEnd == IF keyStart = -1 THEN -1 ELSE Index(From(s, start + keyStart), <<")">>)
  IN IF keyStart # -1 /\ keyEnd # -1
     THEN [found |-> TRUE,
           columns |-> Split(ReplaceAll(Slice(s, start + keyStart + 1, start + keyStart + keyEnd),
                                        <<BQ>>, <<>>), <<","," ">>)]
     ELSE [found |-> FALSE, columns |-> <<>>]

\* FromSQL: the word taken after a keyword of width characters: what lies
\* between the keyword and the next space
wordAfter(line, keyword, width) ==
  LET rest == From(line, Index(line, keyword) + width)
      end == Index(rest, <<" ">>)
  IN IF end # -1 THEN TrimSpace(Slice(rest, 0, end)) ELSE TrimSpace(rest)

\* fmt.Sscanf(s, "%d", &n) on n = 0: leading spaces, a sign, decimal digits
Digits == <<"0","1","2","3","4","5","6","7","8","9">>

RECURSIVE DigitsValue(_)
DigitsValue(ds) ==
  IF Len(ds) = 0 THEN 0
  ELSE 10 * DigitsValue(SubSeq(ds, 1, Len(ds) - 1))
       + (CHOOSE k \in 0..9 : Digits[k + 1] = ds[Len(ds)])

ScanInt(s) ==
  LET nonSpace == {i \in 1..Len(s) : s[i] \notin WhiteSpace}
      t == IF nonSpace = {} THEN <<>> ELSE SubSeq(s, Min(nonSpace), Len(s))
      signed == t # <<>> /\ t[1] \in {"+", "-"}
      u == IF signed THEN Tail(t) ELSE t
      stops == {i \in 1..Len(u) : \A k \in 1..10 : Digits[k] # u[i]}
      ds == IF stops = {} THEN u ELSE SubSeq(u, 1, Min(stops) - 1)
  IN IF ds = <<>> THEN 0
     ELSE IF signed /\ t[1] = "-" THEN 0 - DigitsValue(ds) ELSE DigitsValue(ds)

\* FromSQL: the column a line of a table's text gives, if it gives one
parseColumnLine(rawLine) ==
  LET line == TrimSpace(rawLine)
      columnName == betweenBackticks(line)
      parts == Fields(line)
      type == ToUpper(parts[3])
      start == Index(line, <<"(">>)
      end == IF start = -1 THEN -1 ELSE Index(From(line, start), <<")">>)
  IN IF ~HasPrefix(line, <<BQ>>) \/ columnName = <<>> \/ Len(parts) < 3 THEN <<>>
     ELSE <<[Name |-> columnName,
             Type |-> type,
             Length |-> IF (Contains(type, <<"V","A","R","C","H","A","R">>) \/ Contains(type, <<"C","H","A","R">>))
                           /\ start # -1 /\ end # -1
                        THEN ScanInt(Slice(line, start + 1, start + end)) ELSE 0,
             Nullable |-> ~Contains(line, <<"N","O","T"," ","N","U","L","L">>),
             Default |-> IF Contains(line, <<"D","E","F","A","U","L","T">>)
                         THEN StringDefault(wordAfter(line, <<"D","E","F","A","U","L","T">>, 7))
                         ELSE NoDefault,
             AutoIncrement |-> Contains(line, <<"A","U","T","O","_","I","N","C","R","E","M","E","N","T">>)]>>

\* FromSQL: the primary key of a table's text
parsePrimaryKey(tableName, tableSQL) ==
  LET key == parenColumns(tableSQL, Index(tableSQL, <<"P","R","I","M","A","R","Y"," ","K","E","Y">>))
  IN IF Contains(tableSQL, <<"P","R","I","M","A","R","Y"," ","K","E","Y">>) /\ key.found
     THEN PrimaryKey(<<"p","k","_">> \o tableName, key.columns)
     ELSE NilPrimaryKey

\* FromSQL: the index a line gives, if it gives one
parseIndexLine(rawLine) ==
  LET line == TrimSpace(rawLine)
      key == parenColumns(line, 0)
  IN IF HasPrefix(line, <<"U","N","I","Q","U","E"," ","K","E","Y">>) \/ HasPrefix(line, <<"K","E","Y">>)
     THEN <<[Name |-> betweenBackticks(line),
             Columns |-> IF key.found THEN key.columns ELSE <<>>,
             Type |-> <<"B","T","R","E","E">>,
             Unique |-> HasPrefix(line, <<"U","N","I","Q","U","E">>)]>>
     ELSE <<>>

\* FromSQL: the foreign key a line gives, if it gives one
parseForeignKeyLine(rawLine) ==
  LET line == TrimSpace(rawLine)
      own == parenColumns(line, Index(line, <<"F","O","R","E","I","G","N"," ","K","E","Y">>))
      hasRef == Contains(line, <<"R","E","F","E","R","E","N","C","E","S">>)
      rest == From(line, Index(line, <<"R","E","F","E","R","E","N","C","E","S">>) + 10)
      ref == parenColumns(rest, 0)
  IN IF Contains(line, <<"F","O","R","E","I","G","N"," ","K","E","Y">>)
     THEN <<[Name |-> betweenBackticks(line),
             Columns |-> IF own.found THEN own.columns ELSE <<>>,
             ReferenceTable |-> IF hasRef THEN betweenBackticks(rest) ELSE <<>>,
             ReferenceColumns |-> IF hasRef /\ ref.found THEN ref.columns ELSE <<>>,
             OnDelete |-> IF Contains(line, <<"O","N"," ","D","E","L","E","T","E">>)
                          THEN wordAfter(line, <<"O","N"," ","D","E","L","E","T","E">>, 9) ELSE <<>>,
             OnUpdate |-> IF Contains(line, <<"O","N"," ","U","P","D","A","T","E">>)
                          THEN wordAfter(line, <<"O","N"," ","U","P","D","A","T","E">>, 9) ELSE <<>>]>>
     ELSE <<>>

\* FromSQL: the table one piece of the text gives, if it gives one
parseTable(tableSQL) ==
  LET tableName == betweenBackticks(tableSQL)
      lines == Split(tableSQL, <<"\n">>)
  IN IF TrimSpace(tableSQL) = <<>> \/ tableName = <<>> THEN <<>>
     ELSE <<Table(tableName,
                  Join([i \in 1..Len(lines) |-> parseColumnLine(lines[i])], <<>>),
                  IF Contains(tableSQL, <<"U","N","I","Q","U","E"," ","K","E","Y">>) \/ Contains(tableSQL, <<"K","E","Y">>)
                  THEN Join([i \in 1..Len(lines) |-> parseIndexLine(lines[i])], <<>>)
                  ELSE <<>>,
                  IF Contains(tableSQL, <<"F","O","R","E","I","G","N"," ","K","E","Y">>)
                  THEN Join([i \in 1..Len(lines) |-> parseForeignKeyLine(lines[i])], <<>>)
                  ELSE <<>>,
                  parsePrimaryKey(tableName, tableSQL))>>

FromSQL(sql) ==
  LET tables == Split(sql, <<"C","R","E","A","T","E"," ","T","A","B","L","E">>)
  IN IF sql = <<>> THEN EmptySchema
     ELSE [Tables |-> Join([i \in 1..Len(tables) |-> parseTable(tables[i])], <<>>)]

\* CompareSchema: the DEFAULT clause of an added column
addColumnDefaultSQL(d) ==
  IF d.kind = "string"
  THEN IF d.str = <<"C","U","R","R","E","N","T","_","T","I","M","E","S","T","A","M","P">>
          \/ d.str = <<"C","U","R","R","E","N","T","_","T","I","M","E","S","T","A","M","P"," ","O","N"," ","U","P","D","A","T","E"," ","C","U","R","R","E","N","T","_","T","I","M","E","S","T","A","M","P">>
       THEN <<" ","D","E","F","A","U","L","T"," ">> \o d.str
       ELSE IF d.str = <<"t","r","u","e">> THEN <<" ","D","E","F","A","U","L","T"," ","1">>
       ELSE IF d.str = <<"f","a","l","s","e">> THEN <<" ","D","E","F","A","U","L","T"," ","0">>
       ELSE <<" ","D","E","F","A","U","L","T"," ","'">> \o d.str \o <<"'">>
  ELSE IF d.kind = "bool" THEN (IF d.num = 1 THEN <<" ","D","E","F","A","U","L","T"," ","1">> ELSE <<" ","D","E","F","A","U","L","T"," ","0">>)
  ELSE IF d.kind = "int" THEN <<" ","D","E","F","A","U","L","T"," ">> \o Itoa(d.num)
  ELSE IF d.kind = "float64" THEN <<" ","D","E","F","A","U","L","T"," ">> \o FormatFloat(d.num)
  ELSE <<>>

\* CompareSchema: what is written for a column of the new table the old table lacks
addColumnSQL(tableName, newColumn) ==
  <<"A","L","T","E","R"," ","T","A","B","L","E"," ",BQ>> \o tableName \o <<BQ," ","A","D","D"," ","C","O","L","U","M","N"," ",BQ>> \o newColumn.Name \o <<BQ," ">>
  \o newColumn.Type
  \o (IF newColumn.Length > 0 /\ (Contains(newColumn.Type, <<"V","A","R","C","H","A","R">>)
                                  \/ Contains(newColumn.Type, <<"C","H","A","R">>))
      THEN <<"(">> \o Itoa(newColumn.Length) \o <<")">> ELSE <<>>)
  \o (IF newColumn.Nullable THEN <<" ","N","U","L","L">> ELSE <<" ","N","O","T"," ","N","U","L","L">>)
  \o addColumnDefaultSQL(newColumn.Default)
  \o <<";">>
  \o <<"\n","\n","-","-"," ","m","i","g","r","a","t","e",":","d","o","w","n","\n","\n">>
  \o <<"A","L","T","E","R"," ","T","A","B","L","E"," ",BQ>> \o tableName \o <<BQ," ","D","R","O","P"," ","C","O","L","U","M","N"," ",BQ>> \o newColumn.Name \o <<BQ,";">>

\* CompareSchema: the pieces written for one table of the new schema
compareTable(newTable, old) ==
  LET sameName == {k \in 1..Len(old.Tables) : old.Tables[k].Name = newTable.Name}
      oldTable == old.Tables[Min(sameName)]
      found(newColumn) ==
        \E k \in 1..Len(oldTable.Columns) : oldTable.Columns[k].Name = newColumn.Name
      added == {j \in 1..Len(newTable.Columns) : ~found(newTable.Columns[j])}
      missing == Sub(newTable.Columns, added)
  IN IF sameName = {} THEN <<createTableSQL(newTable)>>
     ELSE [j \in 1..Len(missing) |-> addColumnSQL(newTable.Name, missing[j])]

\* s.CompareSchema(old), old not nil: every piece written, "\n\n" before each but the first
CompareSchema(s, old) ==
  IF Len(old.Tables) = 0 THEN ToSQL(s)
  ELSE Join(Join([i \in 1..Len(s.Tables) |-> compareTable(s.Tables[i], old)], <<>>), <<"\n","\n">>)

(***************************************************************************)
(* The schemas the codec is run on.                                        *)
(***************************************************************************)
\* the most tables one Schema of the model holds
MaxModelTables == 2

\* the tables a Schema can hold
ModelTables ==
  << Table(<<"u","s","e","r","s">>,
           <<Column(<<"i","d">>, <<"B","I","G","I","N","T">>, FALSE, TRUE, NoDefault),
             Column(<<"n","a","m","e">>, <<"V","A","R","C","H","A","R","(","2","5","5",")">>, FALSE, FALSE, NoDefault)>>,
           <<TableIndex(<<"i","d","x","_","u","s","e","r","s","_","n","a","m","e">>, <<<<"n","a","m","e">>>>, FALSE)>>,
           <<>>,
           PrimaryKey(<<"P","R","I","M","A","R","Y">>, <<<<"i","d">>>>)),
     Table(<<"u","s","e","r","s">>,
           <<Column(<<"i","d">>, <<"B","I","G","I","N","T"," ","U","N","S","I","G","N","E","D">>, FALSE, TRUE, NoDefault),
             Column(<<"n","a","m","e">>, <<"V","A","R","C","H","A","R","(","2","5","5",")">>, FALSE, FALSE, StringDefault(<<"g","u","e","s","t">>)),
             Column(<<"e","m","a","i","l">>, <<"V","A","R","C","H","A","R","(","2","5","5",")">>, TRUE, FALSE, NoDefault),
             Column(<<"c","r","e","a","t","e","d","_","a","t">>, <<"T","I","M","E","S","T","A","M","P">>, FALSE, FALSE,
                    StringDefault(<<"C","U","R","R","E","N","T","_","T","I","M","E","S","T","A","M","P">>))>>,
           <<TableIndex(<<"i","d","x","_","u","s","e","r","s","_","n","a","m","e","_","e","m","a","i","l">>, <<<<"n","a","m","e">>, <<"e","m","a","i","l">>>>, FALSE),
             TableIndex(<<"i","d","x","_","u","s","e","r","s","_","e","m","a","i","l">>, <<<<"e","m","a","i","l">>>>, FALSE),
             TableIndex(<<"u","n","i","_","u","s","e","r","s","_","e","m","a","i","l">>, <<<<"e","m","a","i","l">>>>, TRUE)>>,
           <<>>,
           PrimaryKey(<<"P","R","I","M","A","R","Y">>, <<<<"i","d">>>>)),
     Table(<<"p","o","s","t","s">>,
           <<Column(<<"i","d">>, <<"I","N","T">>, FALSE, FALSE, NoDefault),
             Column(<<"t","e","n","a","n","t","_","i","d">>, <<"I","N","T">>, FALSE, FALSE, IntDefault(0)),
             Column(<<"u","s","e","r","_","i","d">>, <<"B","I","G","I","N","T">>, FALSE, FALSE, NoDefault),
             Column(<<"p","u","b","l","i","s","h","e","d">>, <<"B","O","O","L","E","A","N">>, TRUE, FALSE, BoolDefault(FALSE))>>,
           <<TableIndex(<<"i","d","x","_","p","o","s","t","s","_","u","s","e","r","_","i","d">>, <<<<"u","s","e","r","_","i","d">>>>, FALSE)>>,
           <<ForeignKey(<<"f","k","_","p","o","s","t","s","_","u","s","e","r">>, <<<<"u","s","e","r","_","i","d">>>>, <<"u","s","e","r","s">>, <<<<"i","d">>>>,
                        <<"C","A","S","C","A","D","E">>, <<"R","E","S","T","R","I","C","T">>)>>,
           PrimaryKey(<<"P","R","I","M","A","R","Y">>, <<<<"i","d">>, <<"t","e","n","a","n","t","_","i","d">>>>)),
     Table(<<"p","o","s","t","s">>,
           <<Column(<<"i","d">>, <<"I","N","T">>, FALSE, FALSE, NoDefault),
             Column(<<"u","s","e","r","_","i","d">>, <<"B","I","G","I","N","T">>, FALSE, FALSE, NoDefault),
             Column(<<"u","s","e","r">>, <<"V","A","R","C","H","A","R","(","1","0","0",")">>, TRUE, FALSE, NoDefault)>>,
           <<TableIndex(<<"i","d","x","_","p","o","s","t","s","_","u","s","e","r","_","i","d">>, <<<<"u","s","e","r","_","i","d">>>>, FALSE),
             TableIndex(<<"i","d","x","_","p","o","s","t","s","_","a","u","t","h","o","r">>, <<<<"u","s","e","r">>, <<"i","d">>>>, FALSE)>>,
           <<ForeignKey(<<"f","k","_","p","o","s","t","s","_","u","s","e","r">>, <<<<"u","s","e","r","_","i","d">>>>, <<"u","s","e","r","s">>, <<<<"i","d">>>>,
                        <<>>, <<>>)>>,
           NilPrimaryKey),
     Table(<<"t","a","g","s">>,
           <<Column(<<"i","d">>, <<"I","N","T">>, FALSE, FALSE, NoDefault),
             Column(<<"l","a","b","e","l">>, <<>>, TRUE, FALSE, NoDefault)>>,
           <<>>,
           <<>>,
           PrimaryKey(<<"P","R","I","M","A","R","Y">>, <<<<"i","d">>>>)),
     Table(<<"t","a","g","s">>,
           <<Column(<<"i","d">>, <<"I","N","T">>, FALSE, FALSE, NoDefault),
             Column(<<"l","a","b","e","l">>, <<"V","A","R","C","H","A","R","(","5","0",")">>, TRUE, FALSE, StringDefault(<<>>)),
             Column(<<"w","e","i","g","h","t">>, <<"D","O","U","B","L","E">>, FALSE, FALSE, Float64Default(1500000))>>,
           <<>>,
           <<>>,
           PrimaryKey(<<"P","R","I","M","A","R","Y">>, <<<<"i","d">>>>)) >>

\* the Schemas: up to MaxModelTables tables with distinct names, in any order
Models ==
  {[Tables |-> [k \in 1..Len(order) |-> ModelTables[order[k]]]] :
     order \in {o \in UNION {[1..n -> 1..Len(ModelTables)] : n \in 0..MaxModelTables} :
                  \A i, j \in 1..Len(o) :
                    i # j => ModelTables[o[i]].Name # ModelTables[o[j]].Name}}
(***************************************************************************)
(* State.                                                                  *)
(***************************************************************************)
VARIABLES
  \* a call of generateSchemaDiff: its arguments, what it returned, and what
  \* the call before it returned for the same arguments
  oldSchema, newSchema, upStatements, downStatements, upSQL, downSQL,
  prevUpSQL, prevDownSQL, calls,
  \* the oracle schemas the two arguments were printed from
  oldDecl, newDecl,
  \* the files of the diff pipeline: migrations/schema.sql, migrations/schema_hash
  \* and the migration files by name, and the clock that names them
  schemaFile, hashFile, migrationFiles, clock,
  \* the last run of generateDiff: the oracle schema it was given, what Execute
  \* returned, the files as they were before it, and the number of runs so far
  oracle, migration, failed, before, runs,
  \* the oracle schema of the run that last wrote schema.sql
  persistedFor,
  \* migrations/datara.sum, the map updateChecksums last passed to
  \* writeChecksumFile, the migration files the runs so far have written (name
  \* and content, oldest first), and the files the last run wrote, in order
  sumFile, checksums, recorded, writes,
  \* the codec: the Schema it is called on, the old Schema of CompareSchema,
  \* which of ToSQL, FromSQL, CompareSchema have returned, the text ToSQL
  \* returned, the Schema FromSQL returned, the text CompareSchema returned
  model, oldModel, returned, text, parsed, compared,
  \* a single call of one function of the program: which one,
  \* its argument, and what it returned
  called, argument, answer,
  \* two runs of generateMigration on one directory: where each run is, what
  \* it holds in its local variables, and whether a step of one run has been
  \* taken while the other run was under way
  pc, local, overlapped,
  \* which part of the repository the behaviour executes
  unit

diffVars == <<oldSchema, newSchema, upStatements, downStatements, upSQL, downSQL,
              prevUpSQL, prevDownSQL, calls, oldDecl, newDecl>>

runVars == <<schemaFile, hashFile, migrationFiles, clock, oracle, migration, failed,
             before, runs, persistedFor, sumFile, checksums, recorded, writes>>

codecVars == <<model, oldModel, returned, text, parsed, compared>>

auxVars == <<called, argument, answer, pc, local, overlapped>>

vars == <<diffVars, runVars, codecVars, auxVars, unit>>

(***************************************************************************)
(* Executor.Execute and generateDiff: one run of the diff pipeline.        *)
(***************************************************************************)
NoFile == [exists |-> FALSE, content |-> <<>>]

FileOf(content) == [exists |-> TRUE, content |-> content]

\* the oracle schema of no run
NoDecl == [tables |-> {}, index |-> FALSE]

\* a faulty saveSchemaState, which writes the hash but an empty schema.sql
saveSchemaStateHashOnly(schema) ==
  [schemaFile |-> FileOf(<<>>), hashFile |-> FileOf(calculateHash(normalizeSchema(schema)))]

\* saveSchemaState: schema.sql and schema_hash after it
saveSchemaState(schema) ==
  [schemaFile |-> FileOf(schema), hashFile |-> FileOf(calculateHash(normalizeSchema(schema)))]

\* the down section Execute returns for the first migration (executor.go 98-101)
firstMigrationDown ==
  <<"D","R","O","P"," ","T","A","B","L","E"," ","I","F"," ","E","X","I","S","T","S"," ","\"","p","r","o","f","i","l","e","s","\""," ","C","A","S","C","A","D","E",";","\n","D","R","O","P"," ","T","A","B","L","E"," ","I","F"," ","E","X","I","S","T","S"," ","\"","u","s","e","r","s","\""," ","C","A","S","C","A","D","E",";">>

\* Execute on the oracle's standard output, with schema.sql as it is: every
\* (returned migration, files written) an execution can give; saved tells
\* whether saveSchemaState ran
Execute(output, sf) ==
  LET trimmed == TrimSpace(output)
      formatted == formatSQL(cleanOutput(trimmed))
      written == saveSchemaState(formatted)
      nothing == [migration |-> <<>>, saved |-> FALSE, schemaFile |-> sf, hashFile |-> NoFile]
  IN IF trimmed = <<>> THEN {nothing}
     ELSE IF ~sf.exists
     THEN {[migration |-> formatMigration(formatted, firstMigrationDown), saved |-> TRUE,
            schemaFile |-> written.schemaFile, hashFile |-> written.hashFile]}
     ELSE {IF r.upSQL = <<>> THEN nothing
           ELSE [migration |-> formatMigration(r.upSQL, r.downSQL), saved |-> TRUE,
                 schemaFile |-> written.schemaFile, hashFile |-> written.hashFile] :
             r \in generateSchemaDiff(sf.content, formatted)}

\* generateMigrationFile: the file named by the second of the clock is (over)written
generateMigrationFile(files, sql, now) ==
  [t \in (DOMAIN files) \cup {now} |-> IF t = now THEN sql ELSE files[t]]

\* the runs of one behaviour and the seconds the clock can show
MaxRuns == 2

MaxClock == 1

\* the oracle schemas of the runs: an index statement is printed alone
RunSchemas == {decl \in OracleSchemas : decl.index => decl.tables = {}}

\* what schema.sql can hold: nothing, or the text saved for an oracle output
SchemaFiles ==
  {NoFile} \cup {saveSchemaState(formatSQL(cleanOutput(TrimSpace(OracleOutput(decl))))).schemaFile :
                   decl \in {d \in RunSchemas : TrimSpace(OracleOutput(d)) # <<>>}}

\* Execute, evaluated once for every oracle schema and every schema.sql
ExecuteTable ==
  {[decl |-> decl, sf |-> sf, outcomes |-> Execute(OracleOutput(decl), sf)] :
     decl \in RunSchemas, sf \in SchemaFiles}

ExecuteOutcomes(decl, sf) ==
  (CHOOSE e \in ExecuteTable : e.decl = decl /\ e.sf = sf).outcomes

RunIdle ==
  /\ schemaFile = NoFile
  /\ hashFile = NoFile
  /\ migrationFiles = [t \in {} |-> <<>>]
  /\ clock = 0
  /\ oracle = NoDecl
  /\ migration = <<>>
  /\ failed = FALSE
  /\ before = [schemaFile |-> NoFile, hashFile |-> NoFile,
               migrationFiles |-> [t \in {} |-> <<>>],
               persistedFor |-> [valid |-> FALSE, decl |-> NoDecl],
               sumFile |-> NoFile, lastGood |-> [valid |-> FALSE, decl |-> NoDecl]]
  /\ runs = 0
  /\ persistedFor = [valid |-> FALSE, decl |-> NoDecl]
  /\ sumFile = NoFile
  /\ checksums = EmptyMap
  /\ recorded = <<>>
  /\ writes = <<>>


CodecIdle ==
  /\ model = EmptySchema
  /\ oldModel = EmptySchema
  /\ returned = {}
  /\ text = <<>>
  /\ parsed = EmptySchema
  /\ compared = <<>>

\* no single function has been called, and no run of generateMigration is under way
AuxIdle ==
  /\ called = "none"
  /\ argument = <<>>
  /\ answer = <<>>
  /\ pc = <<>>
  /\ local = <<>>
  /\ overlapped = FALSE

(***************************************************************************)
(* generateSchemaDiff as a function of two DDL texts.                      *)
(***************************************************************************)
\* the calls of generateSchemaDiff made on one pair of arguments
MaxCalls == 2

\* the DDL text Execute holds for an oracle output (executor.go 72-82), and
\* the empty text
DDLText(decl) ==
  IF TrimSpace(OracleOutput(decl)) = <<>> THEN <<>>
  ELSE formatSQL(cleanOutput(TrimSpace(OracleOutput(decl))))

\* the text of every oracle schema
DDLTexts == [decl \in OracleSchemas |-> DDLText(decl)]

InitDiff ==
  /\ oldDecl \in OracleSchemas
  /\ newDecl \in OracleSchemas
  /\ oldSchema = DDLTexts[oldDecl]
  /\ newSchema = DDLTexts[newDecl]
  /\ upStatements = <<>>
  /\ downStatements = <<>>
  /\ upSQL = <<>>
  /\ downSQL = <<>>
  /\ prevUpSQL = <<>>
  /\ prevDownSQL = <<>>
  /\ calls = 0
  /\ RunIdle
  /\ CodecIdle
  /\ AuxIdle
  /\ unit = "generateSchemaDiff"

\* one execution of generateSchemaDiff(oldSchema, newSchema)
GenerateSchemaDiff ==
  /\ unit = "generateSchemaDiff"
  /\ calls < MaxCalls
  /\ \E r \in generateSchemaDiff(oldSchema, newSchema) :
       /\ upStatements' = r.upStatements
       /\ downStatements' = r.downStatements
       /\ upSQL' = r.upSQL
       /\ downSQL' = r.downSQL
  /\ prevUpSQL' = upSQL
  /\ prevDownSQL' = downSQL
  /\ calls' = calls + 1
  /\ UNCHANGED <<oldSchema, newSchema, oldDecl, newDecl>>
  /\ UNCHANGED <<runVars, codecVars, auxVars, unit>>

NextDiff == GenerateSchemaDiff

SpecDiff == InitDiff /\ [][NextDiff]_vars

(***************************************************************************)
(* The runs of the diff pipeline over the files they leave behind.         *)
(***************************************************************************)
DiffIdle ==
  /\ oldDecl = NoDecl
  /\ newDecl = NoDecl
  /\ oldSchema = <<>>
  /\ newSchema = <<>>
  /\ upStatements = <<>>
  /\ downStatements = <<>>
  /\ upSQL = <<>>
  /\ downSQL = <<>>
  /\ prevUpSQL = <<>>
  /\ prevDownSQL = <<>>
  /\ calls = 0

InitRun == RunIdle /\ DiffIdle /\ CodecIdle /\ AuxIdle /\ unit = "generateDiff"

\* the files as a run finds them, and the oracle schema of the last run
\* before it that succeeded
Snapshot ==
  [schemaFile |-> schemaFile, hashFile |-> hashFile, migrationFiles |-> migrationFiles,
   persistedFor |-> persistedFor, sumFile |-> sumFile,
   lastGood |-> IF runs > 0 /\ ~failed THEN [valid |-> TRUE, decl |-> oracle]
                ELSE before.lastGood]

\* generateDiff: Execute, and the migration file when Execute returned a migration
Run ==
  /\ unit = "generateDiff"
  /\ runs < MaxRuns
  /\ \E decl \in RunSchemas :
       \E r \in ExecuteOutcomes(decl, schemaFile) :
         /\ oracle' = decl
         /\ migration' = r.migration
         /\ schemaFile' = r.schemaFile
         /\ hashFile' = IF r.saved THEN r.hashFile ELSE hashFile
         /\ persistedFor' = IF r.saved THEN [valid |-> TRUE, decl |-> decl] ELSE persistedFor
         /\ migrationFiles' = IF r.migration = <<>> THEN migrationFiles
                              ELSE generateMigrationFile(migrationFiles, r.migration, clock)
         /\ recorded' = IF r.migration = <<>> THEN recorded
                        ELSE Append(recorded, [name |-> clock, content |-> r.migration])
         /\ writes' = (IF r.saved THEN <<"schema.sql", "schema_hash">> ELSE <<>>)
                      \o (IF r.migration = <<>> THEN <<>> ELSE <<"migration">>)
  /\ failed' = FALSE
  /\ before' = Snapshot
  /\ runs' = runs + 1
  /\ UNCHANGED <<clock, sumFile, checksums>>
  /\ UNCHANGED <<diffVars, codecVars, auxVars, unit>>

\* a run whose schema program exits non-zero: Execute returns the error
RunOracleFails ==
  /\ unit = "generateDiff"
  /\ runs < MaxRuns
  /\ migration' = <<>>
  /\ failed' = TRUE
  /\ before' = Snapshot
  /\ runs' = runs + 1
  /\ writes' = <<>>
  /\ UNCHANGED <<schemaFile, hashFile, migrationFiles, clock, persistedFor, oracle,
                 sumFile, checksums, recorded>>
  /\ UNCHANGED <<diffVars, codecVars, auxVars, unit>>

\* a second passes
Tick ==
  /\ unit \in {"generateDiff", "run", "race"}
  /\ clock < MaxClock
  /\ clock' = clock + 1
  /\ UNCHANGED <<schemaFile, hashFile, migrationFiles, oracle, migration, failed, before,
                 runs, persistedFor, sumFile, checksums, recorded, writes>>
  /\ UNCHANGED <<diffVars, codecVars, auxVars, unit>>

NextRun == Run \/ RunOracleFails \/ Tick

SpecRun == InitRun /\ [][NextRun]_vars

(***************************************************************************)
(* cmd/datara/main.go: run, generateMigration and the checksum ledger      *)
(* migrations/datara.sum.                                                  *)
(***************************************************************************)
\* the name of the migration file written in second t of the clock:
\* time.Now().Format("20060102150405") followed by ".sql"
TimestampName(t) ==
  <<"2","0","2","4","0","1","0","1","1","2","0","0">> \o (IF t < 10 THEN <<"0">> ELSE <<>>) \o Itoa(t) \o <<".","s","q","l">>

\* base64 of a SHA-256 digest, taken to be free of collisions: a text without
\* white space that determines the content
calculateFileHash(content) ==
  LET Encode ==
        [i \in 1..Len(content) |->
           IF content[i] = " " THEN "~" ELSE IF content[i] = "\n" THEN "^" ELSE content[i]]
  IN <<"h","1",":">> \o Encode

\* bufio.Scanner: the lines of a text, without a last empty one
scanLines(content) ==
  LET lines == Split(content, <<"\n">>)
  IN IF lines[Len(lines)] = <<>> THEN SubSeq(lines, 1, Len(lines) - 1) ELSE lines

\* readChecksumFile: the first line skipped, then file name -> hash
RECURSIVE readChecksumLines(_, _, _)
readChecksumLines(lines, i, sums) ==
  IF i > Len(lines) THEN sums
  ELSE LET parts == Fields(lines[i])
       IN readChecksumLines(lines, i + 1,
                            IF i > 1 /\ Len(parts) = 2 THEN MapPut(sums, parts[1], parts[2])
                            ELSE sums)

\* a faulty readChecksumFile, which skips every line
readChecksumFileNoLines(file) == EmptyMap

readChecksumFile(file) ==
  IF ~file.exists THEN EmptyMap ELSE readChecksumLines(scanLines(file.content), 1, EmptyMap)

\* the keys of a map or the names of a directory after sort.Strings
SortedNames(names) == SortStrings(CHOOSE p \in Perms(names) : TRUE)

\* a faulty calculateGlobalHash, which takes the files newest first
calculateGlobalHashNewestFirst(files) ==
  LET filenames == SortedNames({TimestampName(t) : t \in DOMAIN files})
      contentOf(name) == files[CHOOSE t \in DOMAIN files : TimestampName(t) = name]
      allContent[k \in 0..Len(filenames)] ==
        IF k = 0 THEN <<>> ELSE contentOf(filenames[k]) \o allContent[k - 1]
  IN calculateFileHash(allContent[Len(filenames)])

\* calculateGlobalHash: the hash of the *.sql files of the directory, their
\* contents appended in the order of their sorted names
calculateGlobalHash(files) ==
  LET filenames == SortedNames({TimestampName(t) : t \in DOMAIN files})
      contentOf(name) == files[CHOOSE t \in DOMAIN files : TimestampName(t) = name]
      allContent[k \in 0..Len(filenames)] ==
        IF k = 0 THEN <<>> ELSE allContent[k - 1] \o contentOf(filenames[k])
  IN calculateFileHash(allContent[Len(filenames)])

\* writeChecksumFile: the text of datara.sum
writeChecksumFile(sums, globalHash) ==
  LET filenames == SortedNames(DOMAIN sums)
      entries[k \in 0..Len(filenames)] ==
        IF k = 0 THEN <<>>
        ELSE entries[k - 1] \o filenames[k] \o <<" ">> \o sums[filenames[k]] \o <<"\n">>
  IN globalHash \o <<"\n">> \o entries[Len(filenames)]

\* a faulty updateChecksums, which starts from an empty map
updateChecksumsFresh(sum, files, newFile, content) ==
  LET sums == MapPut(EmptyMap, newFile, calculateFileHash(content))
  IN [checksums |-> sums,
      sumFile |-> FileOf(writeChecksumFile(sums, calculateGlobalHash(files)))]

\* updateChecksums, called with datara.sum as it is and the directory as it
\* is after the new file was written
updateChecksums(sum, files, newFile, content) ==
  LET sums == MapPut(readChecksumFile(sum), newFile, calculateFileHash(content))
  IN [checksums |-> sums,
      sumFile |-> FileOf(writeChecksumFile(sums, calculateGlobalHash(files)))]

\* generateMigration: the file named by the second of the clock is
\* (over)written, then the ledger is updated
generateMigration(files, sum, sql, now) ==
  LET written == [t \in (DOMAIN files) \cup {now} |-> IF t = now THEN sql ELSE files[t]]
      updated == updateChecksums(sum, written, TimestampName(now), sql)
  IN [migrationFiles |-> written, sumFile |-> updated.sumFile, checksums |-> updated.checksums]

\* the oracle schemas of the ledger's runs: the output is passed on as an
\* opaque text, so schemas of at most one table stand for all
LedgerSchemas == {decl \in RunSchemas : Cardinality(decl.tables) <= 1}

InitLedger == RunIdle /\ DiffIdle /\ CodecIdle /\ AuxIdle /\ unit = "run"

\* run: the schema program's output goes to generateMigration as it is
LedgerRun ==
  /\ unit = "run"
  /\ runs < MaxRuns
  /\ \E decl \in LedgerSchemas :
       LET r == generateMigration(migrationFiles, sumFile, OracleOutput(decl), clock)
       IN /\ oracle' = decl
          /\ migration' = OracleOutput(decl)
          /\ migrationFiles' = r.migrationFiles
          /\ sumFile' = r.sumFile
          /\ checksums' = r.checksums
          /\ recorded' = Append(recorded, [name |-> clock, content |-> OracleOutput(decl)])
  /\ writes' = <<"migration", "datara.sum">>
  /\ failed' = FALSE
  /\ before' = Snapshot
  /\ runs' = runs + 1
  /\ UNCHANGED <<schemaFile, hashFile, clock, persistedFor>>
  /\ UNCHANGED <<diffVars, codecVars, auxVars, unit>>

\* a run whose schema program exits non-zero: run returns the error
LedgerOracleFails ==
  /\ unit = "run"
  /\ runs < MaxRuns
  /\ failed' = TRUE
  /\ migration' = <<>>
  /\ writes' = <<>>
  /\ before' = Snapshot
  /\ runs' = runs + 1
  /\ UNCHANGED <<schemaFile, hashFile, migrationFiles, clock, persistedFor, oracle,
                 sumFile, checksums, recorded>>
  /\ UNCHANGED <<diffVars, codecVars, auxVars, unit>>

NextLedger == LedgerRun \/ LedgerOracleFails \/ Tick

SpecLedger == InitLedger /\ [][NextLedger]_vars

(***************************************************************************)
(* Two runs of generateMigration on one migrations directory.  Nothing in  *)
(* main.go locks the directory or datara.sum, so the file operations of    *)
(* the two runs interleave freely; each operation on a file is one step.   *)
(***************************************************************************)
InitRace ==
  /\ DiffIdle
  /\ RunIdle
  /\ CodecIdle
  /\ called = "none"
  /\ argument = <<>>
  /\ answer = <<>>
  /\ pc = [p \in {1, 2} |-> "start"]
  /\ local = [p \in {1, 2} |->
                [newFile |-> 0, content |-> <<>>, checksums |-> EmptyMap, globalHash |-> <<>>]]
  /\ overlapped = FALSE
  /\ unit = "race"

\* generateMigration up to the call of updateChecksums: the file named by
\* the second of the clock is (over)written with the SQL of the run
RaceWriteMigration(p) ==
  /\ unit = "race"
  /\ pc[p] = "start"
  /\ \E decl \in LedgerSchemas :
       /\ migrationFiles' =
            [t \in (DOMAIN migrationFiles) \cup {clock} |->
               IF t = clock THEN OracleOutput(decl) ELSE migrationFiles[t]]
       /\ local' = [local EXCEPT ![p].newFile = clock, ![p].content = OracleOutput(decl)]
  /\ pc' = [pc EXCEPT ![p] = "read"]
  /\ overlapped' = (overlapped \/ \E q \in DOMAIN pc : q # p /\ pc[q] \notin {"start", "done"})
  /\ UNCHANGED <<schemaFile, hashFile, clock, oracle, migration, failed, before, runs,
                 persistedFor, sumFile, checksums, recorded, writes>>
  /\ UNCHANGED <<diffVars, codecVars, called, argument, answer, unit>>

\* updateChecksums: readChecksumFile, then the entry of the new file is put
\* into the map it returned
RaceReadChecksums(p) ==
  /\ unit = "race"
  /\ pc[p] = "read"
  /\ local' = [local EXCEPT ![p].checksums =
                 MapPut(readChecksumFile(sumFile), TimestampName(local[p].newFile),
                        calculateFileHash(local[p].content))]
  /\ pc' = [pc EXCEPT ![p] = "hash"]
  /\ overlapped' = (overlapped \/ \E q \in DOMAIN pc : q # p /\ pc[q] \notin {"start", "done"})
  /\ UNCHANGED <<runVars, diffVars, codecVars, called, argument, answer, unit>>

\* updateChecksums: calculateGlobalHash reads the directory as it is now
RaceGlobalHash(p) ==
  /\ unit = "race"
  /\ pc[p] = "hash"
  /\ local' = [local EXCEPT ![p].globalHash = calculateGlobalHash(migrationFiles)]
  /\ pc' = [pc EXCEPT ![p] = "create"]
  /\ overlapped' = (overlapped \/ \E q \in DOMAIN pc : q # p /\ pc[q] \notin {"start", "done"})
  /\ UNCHANGED <<runVars, diffVars, codecVars, called, argument, answer, unit>>

\* writeChecksumFile: os.Create leaves datara.sum empty
RaceCreateChecksumFile(p) ==
  /\ unit = "race"
  /\ pc[p] = "create"
  /\ sumFile' = FileOf(<<>>)
  /\ pc' = [pc EXCEPT ![p] = "write"]
  /\ overlapped' = (overlapped \/ \E q \in DOMAIN pc : q # p /\ pc[q] \notin {"start", "done"})
  /\ UNCHANGED <<schemaFile, hashFile, migrationFiles, clock, oracle, migration, failed,
                 before, runs, persistedFor, checksums, recorded, writes>>
  /\ UNCHANGED <<diffVars, codecVars, called, argument, answer, local, unit>>

\* writeChecksumFile: the global hash and the sorted entries are written,
\* and generateMigration returns
RaceWriteChecksumFile(p) ==
  /\ unit = "race"
  /\ pc[p] = "write"
  /\ sumFile' = FileOf(writeChecksumFile(local[p].checksums, local[p].globalHash))
  /\ checksums' = local[p].checksums
  /\ pc' = [pc EXCEPT ![p] = "done"]
  /\ overlapped' = (overlapped \/ \E q \in DOMAIN pc : q # p /\ pc[q] \notin {"start", "done"})
  /\ UNCHANGED <<schemaFile, hashFile, migrationFiles, clock, oracle, migration, failed,
                 before, runs, persistedFor, recorded, writes>>
  /\ UNCHANGED <<diffVars, codecVars, called, argument, answer, local, unit>>

NextRace ==
  \/ \E p \in {1, 2} :
       \/ RaceWriteMigration(p)
       \/ RaceReadChecksums(p)
       \/ RaceGlobalHash(p)
       \/ RaceCreateChecksumFile(p)
       \/ RaceWriteChecksumFile(p)
  \/ Tick

SpecRace == InitRace /\ [][NextRace]_vars


(***************************************************************************)
(* The codec, called on the schemas of Models.                             *)
(***************************************************************************)
\* the codec's functions, evaluated once for every argument the model gives them
ToSQLTable == [m \in Models |-> ToSQL(m)]

FromSQLTable == [t \in {ToSQLTable[m] : m \in Models} |-> FromSQL(t)]

\* the old Schemas CompareSchema is given: the Schema itself, and the Schemas
\* of at most one table
OldModels(s) == {s} \cup {m \in Models : Len(m.Tables) <= 1}

CompareSchemaTable == [s \in Models |-> [old \in OldModels(s) |-> CompareSchema(s, old)]]

InitCodec ==
  /\ DiffIdle
  /\ RunIdle
  /\ AuxIdle
  /\ model \in Models
  /\ oldModel \in OldModels(model)
  /\ returned = {}
  /\ text = <<>>
  /\ parsed = EmptySchema
  /\ compared = <<>>
  /\ unit = "codec"

\* model.ToSQL()
CallToSQL ==
  /\ unit = "codec"
  /\ text' = ToSQLTable[model]
  /\ returned' = returned \cup {"ToSQL"}
  /\ UNCHANGED <<model, oldModel, parsed, compared>>
  /\ UNCHANGED <<diffVars, runVars, auxVars, unit>>

\* FromSQL on the text ToSQL returned
CallFromSQL ==
  /\ unit = "codec"
  /\ "ToSQL" \in returned
  /\ parsed' = FromSQLTable[text]
  /\ returned' = returned \cup {"FromSQL"}
  /\ UNCHANGED <<model, oldModel, text, compared>>
  /\ UNCHANGED <<diffVars, runVars, auxVars, unit>>

\* model.CompareSchema(oldModel)
CallCompareSchema ==
  /\ unit = "codec"
  /\ compared' = CompareSchemaTable[model][oldModel]
  /\ returned' = returned \cup {"CompareSchema"}
  /\ UNCHANGED <<model, oldModel, text, parsed>>
  /\ UNCHANGED <<diffVars, runVars, auxVars, unit>>

NextCodec == CallToSQL \/ CallFromSQL \/ CallCompareSchema

SpecCodec == InitCodec /\ [][NextCodec]_vars

(***************************************************************************)
(* The two comparisons of schemas: the text diff and CompareSchema.        *)
(***************************************************************************)
InitCompare == InitDiff \/ InitCodec

NextCompare == GenerateSchemaDiff \/ CallToSQL \/ CallFromSQL \/ CallCompareSchema

SpecCompare == InitCompare /\ [][NextCompare]_vars
(***************************************************************************)
(* The naming and type-validation functions of the datara package.         *)
(***************************************************************************)
\* ValidateSQLType(sqlType): the *SQLType with a nil error ("ok"), nil with an
\* error ("error"), or the run-time panic of a slice expression whose bounds
\* are out of range ("panic")
ValidateSQLType(sqlType) ==
  LET \* strconv.Atoi: an optional sign and at least one decimal digit, or an error
      Atoi(s) ==
        LET signed == s # <<>> /\ s[1] \in {"+", "-"}
            ds == IF signed THEN Tail(s) ELSE s
            isNumber == ds # <<>> /\ \A i \in 1..Len(ds) : \E k \in 1..10 : Digits[k] = ds[i]
        IN IF ~isNumber THEN [ok |-> FALSE, value |-> 0]
           ELSE [ok |-> TRUE,
                 value |-> IF s[1] = "-" THEN 0 - DigitsValue(ds) ELSE DigitsValue(ds)]
      upper == ToUpper(TrimSpace(sqlType))
      isUnsigned == Contains(upper, <<"U","N","S","I","G","N","E","D">>)
      st == IF isUnsigned THEN TrimSpace(ReplaceAll(upper, <<"U","N","S","I","G","N","E","D">>, <<>>)) ELSE upper
      open == Index(st, <<"(">>)
      close == Index(st, <<")">>)
      hasParams == Contains(st, <<"(">>)
      params == Slice(st, open + 1, close)
      parts == Split(params, <<",">>)
      p == Atoi(TrimSpace(parts[1]))
      sc == Atoi(TrimSpace(parts[2]))
      l == Atoi(params)
      pair == hasParams /\ Contains(params, <<",">>) /\ Len(parts) = 2
      single == hasParams /\ ~Contains(params, <<",">>)
      parsedName == IF hasParams THEN Slice(st, 0, open) ELSE st
      parsedLength == IF single /\ l.ok THEN l.value ELSE 0
      parsedPrecision == IF pair /\ p.ok THEN p.value ELSE 0
      parsedScale == IF pair /\ sc.ok THEN sc.value ELSE 0
      Result(n, len, prec, scale) ==
        [kind |-> "ok", Name |-> n, Length |-> len, Precision |-> prec, Scale |-> scale,
         Unsigned |-> isUnsigned]
      orElse(v, d) == IF v = 0 THEN d ELSE v
  IN IF hasParams /\ close < open + 1 THEN [kind |-> "panic"]
     ELSE IF parsedName = <<"T","I","N","Y","I","N","T">>
     THEN Result(parsedName, orElse(parsedLength, 4), parsedPrecision, parsedScale)
     ELSE IF parsedName = <<"S","M","A","L","L","I","N","T">>
     THEN Result(parsedName, orElse(parsedLength, 6), parsedPrecision, parsedScale)
     ELSE IF parsedName = <<"M","E","D","I","U","M","I","N","T">>
     THEN Result(parsedName, orElse(parsedLength, 9), parsedPrecision, parsedScale)
     ELSE IF parsedName \in {<<"I","N","T">>, <<"I","N","T","E","G","E","R">>}
     THEN Result(<<"I","N","T">>, orElse(parsedLength, 11), parsedPrecision, parsedScale)
     ELSE IF parsedName = <<"B","I","G","I","N","T">>
     THEN Result(parsedName, orElse(parsedLength, 20), parsedPrecision, parsedScale)
     ELSE IF parsedName \in {<<"D","E","C","I","M","A","L">>, <<"N","U","M","E","R","I","C">>}
     THEN Result(<<"D","E","C","I","M","A","L">>, parsedLength, orElse(parsedPrecision, 10), orElse(parsedScale, 2))
     ELSE IF parsedName = <<"F","L","O","A","T">>
     THEN Result(parsedName, parsedLength, orElse(parsedPrecision, 10), parsedScale)
     ELSE IF parsedName \in {<<"D","O","U","B","L","E">>, <<"R","E","A","L">>}
     THEN Result(<<"D","O","U","B","L","E">>, parsedLength, orElse(parsedPrecision, 16), parsedScale)
     ELSE IF parsedName = <<"V","A","R","C","H","A","R">>
     THEN Result(parsedName, orElse(parsedLength, 255), parsedPrecision, parsedScale)
     ELSE IF parsedName = <<"C","H","A","R">>
     THEN Result(parsedName, orElse(parsedLength, 1), parsedPrecision, parsedScale)
     ELSE IF parsedName \in {<<"T","E","X","T">>, <<"T","I","N","Y","T","E","X","T">>, <<"M","E","D","I","U","M","T","E","X","T">>, <<"L","O","N","G","T","E","X","T">>,
                             <<"D","A","T","E","T","I","M","E">>, <<"T","I","M","E","S","T","A","M","P">>, <<"D","A","T","E">>, <<"T","I","M","E">>, <<"J","S","O","N">>}
     THEN Result(parsedName, 0, parsedPrecision, parsedScale)
     ELSE IF parsedName \in {<<"B","O","O","L","E","A","N">>, <<"B","O","O","L">>}
     THEN Result(<<"T","I","N","Y","I","N","T">>, 1, parsedPrecision, parsedScale)
     ELSE IF parsedName = <<"E","N","U","M">>
     THEN Result(parsedName, parsedLength, parsedPrecision, parsedScale)
     ELSE [kind |-> "error"]

\* toSnakeCase of the struct parser (parseStruct, createColumn)
RECURSIVE toSnakeCase(_)
toSnakeCase(s) ==
  LET \* strings.ToLower
      ToLower(w) ==
        [i \in 1..Len(w) |->
           IF \E k \in 1..Len(UpperLetters) : UpperLetters[k] = w[i]
           THEN LowerLetters[CHOOSE k \in 1..Len(UpperLetters) : UpperLetters[k] = w[i]]
           ELSE w[i]]
      isCapital(c) == \E k \in 1..Len(UpperLetters) : UpperLetters[k] = c
      written == [i \in 1..Len(s) |->
                    IF i > 1 /\ isCapital(s[i]) THEN <<"_", s[i]>> ELSE <<s[i]>>]
  IN IF s = <<"I","D">> THEN <<"i","d">>
     ELSE IF HasSuffix(s, <<"I","D">>) THEN toSnakeCase(TrimSuffix(s, <<"I","D">>)) \o <<"_","i","d">>
     ELSE ToLower(Join(written, <<>>))

\* toSnakeCase of DefaultParser (datara.go)
toSnakeCaseOfParser(s) ==
  LET \* unicode.ToLower
      ToLower(w) ==
        [i \in 1..Len(w) |->
           IF \E k \in 1..Len(UpperLetters) : UpperLetters[k] = w[i]
           THEN LowerLetters[CHOOSE k \in 1..Len(UpperLetters) : UpperLetters[k] = w[i]]
           ELSE w[i]]
      isUpper(c) == \E k \in 1..Len(UpperLetters) : UpperLetters[k] = c
      isLower(c) == \E k \in 1..Len(LowerLetters) : LowerLetters[k] = c
      written == [i \in 1..Len(s) |->
                    IF /\ i > 1
                       /\ isUpper(s[i])
                       /\ \/ isLower(s[i - 1])
                          \/ i + 1 <= Len(s) /\ isLower(s[i + 1])
                    THEN <<"_">> \o ToLower(<<s[i]>>)
                    ELSE ToLower(<<s[i]>>)]
  IN Join(written, <<>>)

\* pluralize (datara.go)
pluralize(s) ==
  IF s = <<>> THEN <<"s">>
  ELSE IF HasSuffix(s, <<"s">>) THEN s \o <<"e","s">>
  ELSE IF HasSuffix(s, <<"y">>) THEN Slice(s, 0, Len(s) - 1) \o <<"i","e","s">>
  ELSE s \o <<"s">>

\* newColumn(field): nil for an unexported field, otherwise createColumn and
\* setColumnType with handleSpecialFields, handleNumericType, handleStringType
newColumn(field) ==
  LET \* a Column with the two flags parseStruct reads
      ParsedColumn(colName, type, isNullable, autoIncrement, default, isPrimaryKey, isUnique) ==
        [Name |-> colName, Type |-> type, Length |-> 0, Nullable |-> isNullable,
         Default |-> default, AutoIncrement |-> autoIncrement,
         IsPrimaryKey |-> isPrimaryKey, IsUnique |-> isUnique]
      name == toSnakeCase(field.Name)
      nullable == field.Kind = "Ptr"
      handleSpecialFields ==
        IF name = <<"i","d">>
        THEN [nil |-> FALSE,
              column |-> ParsedColumn(<<"i","d">>, <<"B","I","G","I","N","T">>, FALSE, TRUE, NoDefault, TRUE, FALSE)]
        ELSE IF name = <<"c","r","e","a","t","e","d","_","a","t">>
        THEN [nil |-> FALSE,
              column |-> ParsedColumn(<<"c","r","e","a","t","e","d","_","a","t">>, <<"T","I","M","E","S","T","A","M","P">>, FALSE, FALSE,
                                      StringDefault(<<"C","U","R","R","E","N","T","_","T","I","M","E","S","T","A","M","P">>), FALSE, FALSE)]
        ELSE IF name = <<"u","p","d","a","t","e","d","_","a","t">>
        THEN [nil |-> FALSE,
              column |-> ParsedColumn(<<"u","p","d","a","t","e","d","_","a","t">>, <<"T","I","M","E","S","T","A","M","P">>, FALSE, FALSE,
                                      StringDefault(<<"C","U","R","R","E","N","T","_","T","I","M","E","S","T","A","M","P"," ","O","N"," ","U","P","D","A","T","E"," ","C","U","R","R","E","N","T","_","T","I","M","E","S","T","A","M","P">>),
                                      FALSE, FALSE)]
        ELSE IF name \in {<<"d","e","l","e","t","e","d","_","a","t">>, <<"l","a","s","t","_","l","o","g","i","n","_","a","t">>}
        THEN [nil |-> FALSE,
              column |-> ParsedColumn(name, <<"T","I","M","E","S","T","A","M","P">>, TRUE, FALSE, NoDefault, FALSE, FALSE)]
        ELSE [nil |-> TRUE]
      handleNumericType ==
        CASE field.Kind = "Bool" -> [sqlType |-> <<"T","I","N","Y","I","N","T","(","1",")">>, defaultVal |-> IntDefault(0)]
          [] field.Kind = "Int8" -> [sqlType |-> <<"T","I","N","Y","I","N","T">>, defaultVal |-> NoDefault]
          [] field.Kind = "Int16" -> [sqlType |-> <<"S","M","A","L","L","I","N","T">>, defaultVal |-> NoDefault]
          [] field.Kind \in {"Int", "Int32"} -> [sqlType |-> <<"I","N","T">>, defaultVal |-> NoDefault]
          [] field.Kind = "Int64" -> [sqlType |-> <<"B","I","G","I","N","T">>, defaultVal |-> NoDefault]
          [] field.Kind = "Uint8" -> [sqlType |-> <<"T","I","N","Y","I","N","T"," ","U","N","S","I","G","N","E","D">>, defaultVal |-> NoDefault]
          [] field.Kind = "Uint16" -> [sqlType |-> <<"S","M","A","L","L","I","N","T"," ","U","N","S","I","G","N","E","D">>, defaultVal |-> NoDefault]
          [] field.Kind \in {"Uint", "Uint32"} ->
               [sqlType |-> <<"I","N","T"," ","U","N","S","I","G","N","E","D">>, defaultVal |-> NoDefault]
          [] field.Kind = "Uint64" -> [sqlType |-> <<"B","I","G","I","N","T"," ","U","N","S","I","G","N","E","D">>, defaultVal |-> NoDefault]
          [] field.Kind = "Float32" -> [sqlType |-> <<"F","L","O","A","T">>, defaultVal |-> NoDefault]
          [] field.Kind = "Float64" -> [sqlType |-> <<"D","O","U","B","L","E">>, defaultVal |-> NoDefault]
          [] OTHER -> [sqlType |-> <<>>, defaultVal |-> NoDefault]
      StringType(sqlType, unique, orNull, defaultVal) ==
        [sqlType |-> sqlType, isUnique |-> unique, isNullable |-> orNull,
         defaultVal |-> defaultVal]
      handleStringType ==
        IF name \in {<<"e","m","a","i","l">>, <<"u","s","e","r","n","a","m","e">>}
        THEN StringType(<<"V","A","R","C","H","A","R","(","2","5","5",")">>, TRUE, FALSE, NoDefault)
        ELSE IF name = <<"p","a","s","s","w","o","r","d">> THEN StringType(<<"V","A","R","C","H","A","R","(","2","5","5",")">>, FALSE, FALSE, NoDefault)
        ELSE IF name \in {<<"p","h","o","n","e">>, <<"p","h","o","n","e","_","n","u","m","b","e","r">>}
        THEN StringType(<<"V","A","R","C","H","A","R","(","2","0",")">>, FALSE, TRUE, NoDefault)
        ELSE IF name \in {<<"s","t","a","t","u","s">>, <<"r","o","l","e">>}
        THEN StringType(<<"V","A","R","C","H","A","R","(","5","0",")">>, FALSE, FALSE, StringDefault(<<"u","s","e","r">>))
        ELSE IF name \in {<<"a","d","d","r","e","s","s">>, <<"b","i","o">>}
        THEN StringType(<<"T","E","X","T">>, FALSE, TRUE, NoDefault)
        ELSE IF name \in {<<"a","v","a","t","a","r">>, <<"w","e","b","s","i","t","e">>, <<"l","o","c","a","t","i","o","n">>}
        THEN StringType(<<"V","A","R","C","H","A","R","(","2","5","5",")">>, FALSE, TRUE, NoDefault)
        ELSE IF name \in {<<"i","s","_","a","c","t","i","v","e">>, <<"i","s","_","v","e","r","i","f","i","e","d">>}
        THEN StringType(<<"T","I","N","Y","I","N","T","(","1",")">>, FALSE, FALSE, IntDefault(1))
        ELSE IF HasSuffix(name, <<"_","i","d">>)
        THEN StringType(<<"B","I","G","I","N","T"," ","U","N","S","I","G","N","E","D">>, FALSE, FALSE, NoDefault)
        ELSE StringType(<<"V","A","R","C","H","A","R","(","2","5","5",")">>, FALSE, FALSE, NoDefault)
      setColumnType ==
        IF ~handleSpecialFields.nil THEN handleSpecialFields.column
        ELSE IF handleNumericType.sqlType # <<>>
        THEN ParsedColumn(name, handleNumericType.sqlType, nullable, FALSE,
                          handleNumericType.defaultVal, FALSE, FALSE)
        ELSE IF field.Kind = "String"
        THEN ParsedColumn(name, handleStringType.sqlType,
                          nullable \/ handleStringType.isNullable, FALSE,
                          handleStringType.defaultVal, FALSE, handleStringType.isUnique)
        ELSE IF field.Kind = "Time"
        THEN ParsedColumn(name, <<"D","A","T","E","T","I","M","E">>, TRUE, FALSE, NoDefault, FALSE, FALSE)
        ELSE ParsedColumn(name, <<"V","A","R","C","H","A","R","(","2","5","5",")">>, nullable, FALSE, NoDefault, FALSE, FALSE)
  IN IF ~field.Exported THEN [nil |-> TRUE] ELSE [nil |-> FALSE, column |-> setColumnType]

\* parseStruct(t) for a struct type t with name t.Name and fields t.Fields
parseStruct(t) ==
  LET tableName == toSnakeCase(t.Name) \o <<"s">>
      Step(table, field) ==
        LET c == newColumn(field)
            column == c.column
            isRef == HasSuffix(column.Name, <<"_","i","d">>)
            uniqueIndex ==
              IF column.IsUnique
              THEN <<TableIndex(<<"i","d","x","_">> \o tableName \o <<"_">> \o column.Name \o <<"_","u","n","i","q","u","e">>,
                                <<column.Name>>, TRUE)>>
              ELSE <<>>
            fk == ForeignKey(<<"f","k","_">> \o tableName \o <<"_">> \o column.Name, <<column.Name>>,
                             TrimSuffix(column.Name, <<"_","i","d">>) \o <<"s">>, <<<<"i","d">>>>,
                             <<"R","E","S","T","R","I","C","T">>, <<"R","E","S","T","R","I","C","T">>)
            fkIndex ==
              IF isRef
              THEN <<TableIndex(<<"i","d","x","_">> \o tableName \o <<"_">> \o column.Name,
                                <<column.Name>>, FALSE)>>
              ELSE <<>>
        IN IF field.Anonymous \/ c.nil THEN table
           ELSE [Name |-> table.Name,
                 Columns |-> Append(table.Columns, column),
                 Indexes |-> table.Indexes \o uniqueIndex \o fkIndex,
                 ForeignKeys |-> IF isRef THEN Append(table.ForeignKeys, fk)
                                 ELSE table.ForeignKeys,
                 PrimaryKey |-> IF column.IsPrimaryKey
                                THEN PrimaryKey(<<"p","k","_">> \o tableName, <<column.Name>>)
                                ELSE table.PrimaryKey]
      walk[i \in 0..Len(t.Fields)] ==
        IF i = 0 THEN Table(tableName, <<>>, <<>>, <<>>, NilPrimaryKey)
        ELSE Step(walk[i - 1], t.Fields[i])
  IN walk[Len(t.Fields)]

\* addRelations(schema): one more index per foreign key of every table
addRelations(schema) ==
  [Tables |->
     [k \in 1..Len(schema.Tables) |->
        LET table == schema.Tables[k]
            added == [j \in 1..Len(table.ForeignKeys) |->
                        TableIndex(<<"i","d","x","_">> \o table.Name \o <<"_">>
                                     \o Join(table.ForeignKeys[j].Columns, <<"_">>),
                                   table.ForeignKeys[j].Columns, FALSE)]
        IN [table EXCEPT !.Indexes = table.Indexes \o added]]]

\* ParseSchema(models...): a model is a string (skipped), or a struct or a
\* pointer to one (parsed); anything else is skipped
ParseSchema(models) ==
  LET structs == Sub(models, {i \in 1..Len(models) : models[i].kind \in {"struct", "ptr"}})
  IN addRelations([Tables |-> [k \in 1..Len(structs) |-> parseStruct(structs[k].type)]])

(***************************************************************************)
(* Single functions called on small arguments.                              *)
(***************************************************************************)
\* the longest generated identifier
MaxNameLen == 3

\* the most models one call of ParseSchema is given
MaxStructs == 2

InitNames == DiffIdle /\ RunIdle /\ CodecIdle /\ AuxIdle /\ unit = "names"

\* ValidateSQLType(sqlType), on type strings of the supported and of other
\* names, with and without parameters, some with unbalanced parentheses
CallValidateSQLType ==
  /\ unit = "names"
  /\ called = "none"
  /\ \E sqlType \in
         {<<"i","n","t">>, <<" ","I","N","T"," ">>, <<"I","N","T"," ","U","N","S","I","G","N","E","D">>, <<"b","i","g","i","n","t","(","2","0",")"," ","u","n","s","i","g","n","e","d">>, <<"I","N","T","(","1","1",")">>,
          <<"I","N","T"," ","(","1","1",")">>, <<"i","n","t","e","g","e","r">>, <<"V","A","R","C","H","A","R","(","2","5","5",")">>, <<"v","a","r","c","h","a","r","(","1","0","0",")">>,
          <<"V","A","R","C","H","A","R","("," ","2","0"," ",")">>, <<"V","A","R","C","H","A","R">>, <<"C","H","A","R">>, <<"C","H","A","R","(","3",")">>, <<"D","E","C","I","M","A","L","(","1","0",",","2",")">>,
          <<"d","e","c","i","m","a","l","(","1","2",","," ","4",")">>, <<"N","U","M","E","R","I","C","(","8",",","3",")">>, <<"D","E","C","I","M","A","L">>, <<"D","E","C","I","M","A","L","(","1",",","2",",","3",")">>,
          <<"F","L","O","A","T">>, <<"R","E","A","L">>, <<"D","O","U","B","L","E","(","8",",","2",")">>, <<"T","E","X","T">>, <<"D","A","T","E","T","I","M","E">>, <<"B","O","O","L">>,
          <<"b","o","o","l","e","a","n">>, <<"J","S","O","N">>, <<"E","N","U","M">>, <<"E","N","U","M","(","'","a","'",",","'","b","'",")">>, <<"B","L","O","B">>, <<"U","U","I","D">>,
          <<"G","E","O","M","E","T","R","Y","(","5",")">>, <<>>, <<"V","A","R","C","H","A","R","(","2","5","5">>, <<"V","A","R","C","H","A","R","(">>, <<")","I","N","T","(">>,
          <<"V","A","R","C","H","A","R","(","a","b","c",")">>, <<"T","I","N","Y","I","N","T","(","1",")">>, <<"S","M","A","L","L","I","N","T">>, <<"M","E","D","I","U","M","I","N","T","(","7",")">>,
          <<"T","I","M","E","S","T","A","M","P">>} :
       /\ argument' = sqlType
       /\ answer' = ValidateSQLType(sqlType)
  /\ called' = "ValidateSQLType"
  /\ UNCHANGED <<diffVars, runVars, codecVars, pc, local, overlapped, unit>>

\* toSnakeCase(s), of the struct parser or of DefaultParser, on every string of
\* at most MaxNameLen characters of a small alphabet and on some identifiers
CallToSnakeCase ==
  /\ unit = "names"
  /\ called = "none"
  /\ \E s \in UNION {[1..n -> {"a", "B", "D", "I", "_"}] : n \in 0..MaxNameLen}
              \cup {<<"U","s","e","r","A","P","I","K","e","y">>, <<"u","s","e","r","N","a","m","e">>, <<"u","s","e","r","_","n","a","m","e">>, <<"U","s","e","r","N","a","m","e">>,
                    <<"U","s","e","r","I","D">>, <<"A","P","I","K","e","y">>, <<"H","T","T","P","S","e","r","v","e","r">>, <<"I","D">>, <<"A">>,
                    <<"C","r","e","a","t","e","d","A","t">>, <<"c","r","e","a","t","e","d","_","a","t">>} :
       /\ argument' = s
       /\ \/ answer' = toSnakeCase(s) /\ called' = "toSnakeCase"
          \/ answer' = toSnakeCaseOfParser(s) /\ called' = "toSnakeCaseOfParser"
  /\ UNCHANGED <<diffVars, runVars, codecVars, pc, local, overlapped, unit>>

\* pluralize(s)
CallPluralize ==
  /\ unit = "names"
  /\ called = "none"
  /\ \E s \in UNION {[1..n -> {"a", "s", "y"}] : n \in 0..MaxNameLen}
              \cup {<<"u","s","e","r">>, <<"s","t","a","t","u","s">>, <<"c","a","t","e","g","o","r","y">>, <<"a","d","d","r","e","s","s">>, <<"p","o","s","t">>,
                    <<"k","e","y">>} :
       /\ argument' = s
       /\ answer' = pluralize(s)
  /\ called' = "pluralize"
  /\ UNCHANGED <<diffVars, runVars, codecVars, pc, local, overlapped, unit>>

\* ParseSchema(models...) on up to MaxStructs models, each a struct value, a
\* pointer to one, or a string
CallParseSchema ==
  /\ unit = "names"
  /\ called = "none"
  /\ LET \* a struct field as reflect shows it: its name, the kind of its type
         \* ("Ptr" for a pointer, "Time" for time.Time), exported, embedded
         Field(name, kind, exported, anonymous) ==
           [Name |-> name, Kind |-> kind, Exported |-> exported, Anonymous |-> anonymous]
         structTypes ==
           { [Name |-> <<"U","s","e","r">>,
              Fields |-> <<Field(<<"I","D">>, "Uint64", TRUE, FALSE),
                           Field(<<"E","m","a","i","l">>, "String", TRUE, FALSE),
                           Field(<<"N","a","m","e">>, "String", TRUE, FALSE),
                           Field(<<"p","a","s","s","w","o","r","d">>, "String", FALSE, FALSE),
                           Field(<<"C","r","e","a","t","e","d","A","t">>, "Time", TRUE, FALSE)>>],
             [Name |-> <<"P","o","s","t">>,
              Fields |-> <<Field(<<"I","D">>, "Uint64", TRUE, FALSE),
                           Field(<<"U","s","e","r","I","D">>, "Uint64", TRUE, FALSE),
                           Field(<<"T","i","t","l","e">>, "String", TRUE, FALSE),
                           Field(<<"P","u","b","l","i","s","h","e","d">>, "Bool", TRUE, FALSE)>>],
             [Name |-> <<"C","a","t","e","g","o","r","y">>,
              Fields |-> <<Field(<<"M","o","d","e","l">>, "Struct", TRUE, TRUE),
                           Field(<<"I","D">>, "Int64", TRUE, FALSE),
                           Field(<<"P","a","r","e","n","t","I","d">>, "Ptr", TRUE, FALSE),
                           Field(<<"L","a","b","e","l">>, "String", TRUE, FALSE)>>],
             [Name |-> <<"A","d","d","r","e","s","s">>,
              Fields |-> <<Field(<<"I","D">>, "Int", TRUE, FALSE),
                           Field(<<"C","i","t","y">>, "String", TRUE, FALSE),
                           Field(<<"C","o","m","p","a","n","y","I","D">>, "Int64", TRUE, FALSE),
                           Field(<<"U","s","e","r","n","a","m","e">>, "String", TRUE, FALSE)>>],
             [Name |-> <<"T","a","g">>,
              Fields |-> <<Field(<<"I","D">>, "Int", TRUE, FALSE),
                           Field(<<"L","a","b","e","l">>, "String", TRUE, FALSE)>>] }
         values == {[kind |-> k, type |-> t] : k \in {"struct", "ptr"}, t \in structTypes}
                   \cup {[kind |-> "string", type |-> [Name |-> <<"s","t","r","i","n","g">>, Fields |-> <<>>]]}
     IN \E models \in UNION {[1..n -> values] : n \in 0..MaxStructs} :
          /\ argument' = models
          /\ answer' = ParseSchema(models)
  /\ called' = "ParseSchema"
  /\ UNCHANGED <<diffVars, runVars, codecVars, pc, local, overlapped, unit>>

\* compareTableDefinitions(tableName, oldDef, newDef) on two definitions of
\* one table, each the text parseTables holds for a CREATE TABLE statement
\* of the oracle
CallCompareTableDefinitions ==
  /\ unit = "names"
  /\ called = "none"
  /\ LET tableName == <<"o","r","d","e","r","s">>
         bodies ==
           { <<<<"\"","i","d","\""," ","b","i","g","s","e","r","i","a","l">>, <<"\"","u","s","e","r","_","i","d","\""," ","b","i","g","i","n","t">>, <<"P","R","I","M","A","R","Y"," ","K","E","Y"," ","(","\"","i","d","\"",")">>>>,
             <<<<"\"","i","d","\""," ","b","i","g","s","e","r","i","a","l">>, <<"\"","u","s","e","r","_","i","d","\""," ","b","i","g","i","n","t"," ","N","O","T"," ","N","U","L","L">>, <<"P","R","I","M","A","R","Y"," ","K","E","Y"," ","(","\"","i","d","\"",")">>>>,
             <<<<"\"","i","d","\""," ","b","i","g","s","e","r","i","a","l">>, <<"\"","u","s","e","r","_","i","d","\""," ","b","i","g","i","n","t">>, <<"P","R","I","M","A","R","Y"," ","K","E","Y"," ","(","\"","i","d","\"",")">>,
               <<"C","O","N","S","T","R","A","I","N","T"," ","\"","f","k","_","o","r","d","e","r","s","_","u","s","e","r","\""," ","F","O","R","E","I","G","N"," ","K","E","Y"," ","(","\"","u","s","e","r","_","i","d","\"",")"," ","R","E","F","E","R","E","N","C","E","S"," ","\"","u","s","e","r","s","\""," ","(","\"","i","d","\"",")">>>>,
             <<<<"\"","i","d","\""," ","b","i","g","s","e","r","i","a","l">>, <<"\"","u","s","e","r","_","i","d","\""," ","b","i","g","i","n","t">>, <<"\"","c","o","d","e","\""," ","t","e","x","t">>,
               <<"P","R","I","M","A","R","Y"," ","K","E","Y"," ","(","\"","i","d","\"",")">>,
               <<"C","O","N","S","T","R","A","I","N","T"," ","\"","f","k","_","o","r","d","e","r","s","_","u","s","e","r","\""," ","F","O","R","E","I","G","N"," ","K","E","Y"," ","(","\"","u","s","e","r","_","i","d","\"",")"," ","R","E","F","E","R","E","N","C","E","S"," ","\"","u","s","e","r","s","\""," ","(","\"","i","d","\"",")">>,
               <<"C","O","N","S","T","R","A","I","N","T"," ","\"","u","n","i","_","o","r","d","e","r","s","_","c","o","d","e","\""," ","U","N","I","Q","U","E"," ","(","\"","c","o","d","e","\"",")">>>>,
             <<<<"\"","i","d","\""," ","b","i","g","s","e","r","i","a","l">>, <<"\"","c","o","d","e","\""," ","t","e","x","t">>, <<"P","R","I","M","A","R","Y"," ","K","E","Y"," ","(","\"","i","d","\"",")">>,
               <<"U","N","I","Q","U","E"," ","(","\"","c","o","d","e","\"",")">>, <<"K","E","Y"," ","\"","i","d","x","_","o","r","d","e","r","s","_","c","o","d","e","\""," ","(","\"","c","o","d","e","\"",")">>>> }
         definition(entries) ==
           parseTables(formatSQL(cleanOutput(
             OracleCreateTable([name |-> tableName, entries |-> entries]) \o <<";">>)))[tableName]
     IN \E oldEntries \in bodies, newEntries \in bodies :
          LET oldDef == definition(oldEntries)
              newDef == definition(newEntries)
          IN /\ argument' = <<tableName, oldDef, newDef>>
             /\ \E r \in compareTableDefinitions(tableName, oldDef, newDef) : answer' = r
  /\ called' = "compareTableDefinitions"
  /\ UNCHANGED <<diffVars, runVars, codecVars, pc, local, overlapped, unit>>

NextNames ==
  \/ CallValidateSQLType
  \/ CallToSnakeCase
  \/ CallPluralize
  \/ CallParseSchema
  \/ CallCompareTableDefinitions

SpecNames == InitNames /\ [][NextNames]_vars


(***************************************************************************)
(* Properties.                                                             *)
(***************************************************************************)
\* the statement lists of the last generateSchemaDiff call, as sets of positions
UpAt(stmt) == {i \in 1..Len(upStatements) : upStatements[i] = stmt}

DownAt(stmt) == {i \in 1..Len(downStatements) : downStatements[i] = stmt}

\* the DROP TABLE statement the properties expect for a table
ExpectedDrop(name) == <<"D","R","O","P"," ","T","A","B","L","E"," ","I","F"," ","E","X","I","S","T","S"," ">> \o Quote(name) \o <<" ","C","A","S","C","A","D","E">>

\* stmt is the CREATE TABLE statement of table name as the text ddl holds it:
\* it starts with the table's header and runs to the semicolon that ends it
IsCreateTableOf(stmt, name, ddl) ==
  /\ HasPrefix(stmt, <<"C","R","E","A","T","E"," ","T","A","B","L","E"," ">> \o Quote(name) \o <<" ">>)
  /\ ~Contains(stmt, <<";">>)
  /\ Contains(ddl, stmt \o <<";">>)

\* C1: generateSchemaDiff of a DDL text with at least one CREATE TABLE
\* statement against itself returns an empty up string and an empty down
\* string, and CompareSchema of a Schema with at least one table against an
\* identical Schema returns the empty string.
NoOpDiff ==
  /\ (calls > 0 /\ oldSchema = newSchema /\ DeclaredTables(newDecl) # {})
       => (upSQL = <<>> /\ downSQL = <<>>)
  /\ ("CompareSchema" \in returned /\ oldModel = model /\ Len(model.Tables) >= 1)
       => compared = <<>>

NoOpDiffWitness ==
  /\ calls > 0
  /\ oldSchema = newSchema
  /\ Cardinality(DeclaredTables(newDecl)) = 2
  /\ newDecl.index
  /\ upSQL = <<>>
  /\ downSQL = <<>>

\* C2: once a run has persisted the schema state for an oracle output, a run
\* whose oracle output is that output again returns an empty migration,
\* writes no migration file and leaves schema.sql and schema_hash as they were.
RunIdempotent ==
  (runs > 0 /\ ~failed /\ before.persistedFor = [valid |-> TRUE, decl |-> oracle])
    => /\ migration = <<>>
       /\ migrationFiles = before.migrationFiles
       /\ schemaFile = before.schemaFile
       /\ hashFile = before.hashFile

RunIdempotentWitness ==
  /\ runs = MaxRuns
  /\ ~failed
  /\ before.persistedFor = [valid |-> TRUE, decl |-> oracle]
  /\ Cardinality(DeclaredTables(oracle)) = 2
  /\ migration = <<>>
  /\ schemaFile.exists
  /\ schemaFile = before.schemaFile

\* C3: two executions of generateSchemaDiff on the same pair of DDL texts
\* return the same up string and the same down string, whatever order the
\* maps are iterated in.
DeterministicDiff ==
  calls >= 2 => (upSQL = prevUpSQL /\ downSQL = prevDownSQL)

\* whether every column of a Schema has a type
NonEmptyTypes(s) ==
  \A i \in 1..Len(s.Tables) :
    \A j \in 1..Len(s.Tables[i].Columns) : s.Tables[i].Columns[j].Type # <<>>

ColumnNames(table) == [j \in 1..Len(table.Columns) |-> table.Columns[j].Name]

\* C4: for a Schema whose columns all have a non-empty type, FromSQL of its
\* ToSQL text has the same table names in the same order, and each table has
\* the same column names in the same order.
RoundTripNames ==
  ("FromSQL" \in returned /\ NonEmptyTypes(model))
    => /\ Len(parsed.Tables) = Len(model.Tables)
       /\ \A i \in 1..Len(model.Tables) :
            /\ parsed.Tables[i].Name = model.Tables[i].Name
            /\ ColumnNames(parsed.Tables[i]) = ColumnNames(model.Tables[i])

RoundTripNamesWitness ==
  /\ "FromSQL" \in returned
  /\ NonEmptyTypes(model)
  /\ Len(model.Tables) = 2
  /\ Len(parsed.Tables) = 2
  /\ Len(parsed.Tables[1].Columns) = 4
  /\ ColumnNames(parsed.Tables[1]) = ColumnNames(model.Tables[1])
  /\ parsed.Tables[2].Name = model.Tables[2].Name

\* the column of the parsed table at position i that has the name of column c
ParsedColumns(i, c) ==
  IF i > Len(parsed.Tables) THEN {}
  ELSE {parsed.Tables[i].Columns[k] :
          k \in {x \in 1..Len(parsed.Tables[i].Columns) :
                   parsed.Tables[i].Columns[x].Name = c.Name}}

\* C5: every column of FromSQL(m.ToSQL()) has the type string of the column
\* of m it corresponds to, whatever the column's nullability, auto-increment
\* flag and default are.
RoundTripTypes ==
  "FromSQL" \in returned
    => \A i \in 1..Len(model.Tables) :
         \A j \in 1..Len(model.Tables[i].Columns) :
           LET c == model.Tables[i].Columns[j]
           IN c.Type # <<>>
                => /\ ParsedColumns(i, c) # {}
                   /\ \A p \in ParsedColumns(i, c) : p.Type = c.Type

\* the text that follows DEFAULT in the line createTableSQL writes for a
\* column, up to the next space or the end of the line
SerializedDefault(c) ==
  LET rest == From(defaultSQL(c.Default), Len(<<" ","D","E","F","A","U","L","T"," ">>))
      end == Index(rest, <<" ">>)
  IN IF end = -1 THEN rest ELSE Slice(rest, 0, end)

\* C6: a column of FromSQL(m.ToSQL()) has no default when the column of m has
\* none, and otherwise a default that denotes the value serialized for it:
\* the text after DEFAULT (with or without the comma that ends the entry) or
\* the string the column's default held.
RoundTripDefaults ==
  "FromSQL" \in returned
    => \A i \in 1..Len(model.Tables) :
         \A j \in 1..Len(model.Tables[i].Columns) :
           LET c == model.Tables[i].Columns[j]
           IN c.Type # <<>>
                => /\ ParsedColumns(i, c) # {}
                   /\ \A p \in ParsedColumns(i, c) :
                        IF c.Default.kind = "nil" THEN p.Default.kind = "nil"
                        ELSE /\ p.Default.kind = "string"
                             /\ \/ p.Default.str = SerializedDefault(c)
                                \/ p.Default.str = SerializedDefault(c) \o <<",">>
                                \/ (c.Default.kind = "string" /\ p.Default.str = c.Default.str)

\* the constraints of a table, as the round trip compares them
PrimaryKeyColumns(table) == IF table.PrimaryKey.nil THEN <<>> ELSE table.PrimaryKey.Columns

IndexSet(indexes) ==
  {[Name |-> indexes[k].Name, Columns |-> indexes[k].Columns, Unique |-> indexes[k].Unique] :
     k \in 1..Len(indexes)}

ForeignKeySet(fks) == {fks[k] : k \in 1..Len(fks)}

\* C7: each table of FromSQL(m.ToSQL()) has the primary key columns, the set
\* of indexes (up to the dedup rule of createTableSQL) and the set of foreign
\* keys of the table of m, keys and indexes over several columns included.
RoundTripConstraints ==
  "FromSQL" \in returned
    => /\ Len(parsed.Tables) = Len(model.Tables)
       /\ \A i \in 1..Len(model.Tables) :
            /\ PrimaryKeyColumns(parsed.Tables[i]) = PrimaryKeyColumns(model.Tables[i])
            /\ IndexSet(parsed.Tables[i].Indexes) = IndexSet(emittedIndexes(model.Tables[i]))
            /\ ForeignKeySet(parsed.Tables[i].ForeignKeys)
                 = ForeignKeySet(model.Tables[i].ForeignKeys)

\* C8: when the old DDL declares no table, the up list is exactly one CREATE
\* TABLE statement per table of the new DDL, that table's text in the new
\* DDL, and the down list is exactly one DROP TABLE IF EXISTS ... CASCADE per
\* table of the new DDL.
AdditiveDiff ==
  (calls > 0 /\ DeclaredTables(oldDecl) = {})
    => /\ Len(upStatements) = Cardinality(DeclaredTables(newDecl))
       /\ Len(downStatements) = Cardinality(DeclaredTables(newDecl))
       /\ \A name \in DeclaredTables(newDecl) :
            /\ \E i \in 1..Len(upStatements) : IsCreateTableOf(upStatements[i], name, newSchema)
            /\ Cardinality(DownAt(ExpectedDrop(name))) = 1

AdditiveDiffWitness ==
  /\ calls > 0
  /\ DeclaredTables(oldDecl) = {}
  /\ oldDecl.index
  /\ Cardinality(DeclaredTables(newDecl)) = 2
  /\ Len(upStatements) = 2
  /\ Len(downStatements) = 2

\* the names of the tables the oracle's models can declare
TableNames == {TableVariants[i].name : i \in 1..Len(TableVariants)}

\* the two sections of a migration text
UpSection(m) == SplitN2(m, <<"\n","\n","-","-"," ","m","i","g","r","a","t","e",":","d","o","w","n","\n","\n">>)[1]

DownSection(m) ==
  LET parts == SplitN2(m, <<"\n","\n","-","-"," ","m","i","g","r","a","t","e",":","d","o","w","n","\n","\n">>)
  IN IF Len(parts) = 2 THEN parts[2] ELSE <<>>

\* C9: with no schema.sql, the migration Execute returns creates every table
\* of the oracle's schema in its up section, and its down section drops
\* exactly the tables the up section creates.
FirstRunReverses ==
  (runs > 0 /\ ~failed /\ ~before.schemaFile.exists /\ migration # <<>>)
    => \A name \in TableNames :
         /\ name \in DeclaredTables(oracle)
              <=> Contains(UpSection(migration), <<"C","R","E","A","T","E"," ","T","A","B","L","E"," ">> \o Quote(name) \o <<" ">>)
         /\ name \in DeclaredTables(oracle)
              <=> Contains(DownSection(migration), ExpectedDrop(name) \o <<";">>)

\* C10: a table of the old DDL that the new DDL lacks gives exactly one up
\* statement DROP TABLE IF EXISTS ... CASCADE and exactly one down statement,
\* its CREATE TABLE statement as the old DDL holds it; a table of both gives
\* no DROP TABLE and no CREATE TABLE statement.
TableRemoval ==
  calls > 0
    => /\ \A name \in DeclaredTables(oldDecl) \ DeclaredTables(newDecl) :
            /\ Cardinality(UpAt(ExpectedDrop(name))) = 1
            /\ Cardinality({i \in 1..Len(downStatements) :
                              IsCreateTableOf(downStatements[i], name, oldSchema)}) = 1
            /\ \A i \in 1..Len(downStatements) :
                 HasPrefix(downStatements[i], <<"C","R","E","A","T","E"," ","T","A","B","L","E"," ">> \o Quote(name) \o <<" ">>)
                   => IsCreateTableOf(downStatements[i], name, oldSchema)
       /\ \A name \in DeclaredTables(oldDecl) \cap DeclaredTables(newDecl) :
            \A i \in 1..Len(upStatements) :
              /\ upStatements[i] # ExpectedDrop(name)
              /\ downStatements[i] # ExpectedDrop(name)
              /\ ~HasPrefix(upStatements[i], <<"C","R","E","A","T","E"," ","T","A","B","L","E"," ">> \o Quote(name) \o <<" ">>)
              /\ ~HasPrefix(downStatements[i], <<"C","R","E","A","T","E"," ","T","A","B","L","E"," ">> \o Quote(name) \o <<" ">>)

TableRemovalWitness ==
  /\ calls > 0
  /\ Cardinality(DeclaredTables(oldDecl) \ DeclaredTables(newDecl)) = 1
  /\ Cardinality(DeclaredTables(oldDecl) \cap DeclaredTables(newDecl)) = 1
  /\ newDecl.tables \cap oldDecl.tables = {}
  /\ Len(upStatements) >= 2
\* the entries of an oracle table definition that declare a column, and the
\* name each declares (the text between the double quotes the entry starts with)
IsColumnEntry(entry) == HasPrefix(entry, <<"\"">>)

EntryName(entry) == Slice(entry, 1, 1 + Index(From(entry, 1), <<"\"">>))

ColumnEntries(v) == {v.entries[k] : k \in {x \in 1..Len(v.entries) : IsColumnEntry(v.entries[x])}}

EntryNames(v) == {EntryName(e) : e \in ColumnEntries(v)}

\* the definition of the table called name in an oracle schema that declares it
VariantOf(decl, name) == TableVariants[CHOOSE i \in decl.tables : TableVariants[i].name = name]

\* a text without its spaces and double quotes
Normal(s) == SelectSeq(s, LAMBDA ch : ch \notin {" ", "\""})

\* the text of a statement after a prefix
AfterPrefix(stmt, prefix) == From(stmt, Len(prefix))

AddColumnPrefix(t) == <<"A","L","T","E","R"," ","T","A","B","L","E"," ">> \o Quote(t) \o <<" ","A","D","D"," ","C","O","L","U","M","N"," ">>

\* stmt adds a column called c to table t
AddsColumn(stmt, t, c) ==
  /\ HasPrefix(stmt, AddColumnPrefix(t))
  /\ Normal(SplitN2(AfterPrefix(stmt, AddColumnPrefix(t)), <<" ">>)[1]) = c

\* stmt adds to table t the column an entry of the DDL defines: the entry
\* itself, or for a decimal column the entry up to spaces and name quoting
AddsEntry(stmt, t, entry) ==
  /\ HasPrefix(stmt, AddColumnPrefix(t))
  /\ Normal(AfterPrefix(stmt, AddColumnPrefix(t))) = Normal(entry)
  /\ ~Contains(entry, <<"d","e","c","i","m","a","l","(">>) => AfterPrefix(stmt, AddColumnPrefix(t)) = entry

ExpectedDropColumn(t, c) ==
  <<"A","L","T","E","R"," ","T","A","B","L","E"," ">> \o Quote(t) \o <<" ","D","R","O","P"," ","C","O","L","U","M","N"," ">> \o Quote(c)

\* stmt is about column c of table t
TouchesColumn(stmt, t, c) ==
  \/ AddsColumn(stmt, t, c)
  \/ stmt = ExpectedDropColumn(t, c)
  \/ HasPrefix(stmt, <<"A","L","T","E","R"," ","T","A","B","L","E"," ">> \o Quote(t) \o <<" ","A","L","T","E","R"," ","C","O","L","U","M","N"," ">> \o Quote(c) \o <<" ">>)

TablesOfBoth == DeclaredTables(oldDecl) \cap DeclaredTables(newDecl)

EntryType(entry) == Split(entry, <<" ">>)[2]

\* the entry that defines column c in an oracle table definition
EntryOf(v, c) == CHOOSE e \in ColumnEntries(v) : EntryName(e) = c

\* C12: a column of both definitions of a table whose two definitions have
\* the same leading type token and differ only in qualifiers or in the
\* default gets no up statement and no down statement.
TypeOnlyChange ==
  calls > 0
    => \A t \in TablesOfBoth :
         LET o == VariantOf(oldDecl, t)
             n == VariantOf(newDecl, t)
         IN \A c \in EntryNames(o) \cap EntryNames(n) :
              (/\ EntryOf(o, c) # EntryOf(n, c)
               /\ EntryType(EntryOf(o, c)) = EntryType(EntryOf(n, c)))
                => \A i \in 1..Len(upStatements) :
                     /\ ~TouchesColumn(upStatements[i], t, c)
                     /\ ~TouchesColumn(downStatements[i], t, c)

\* the ledger as a reader of datara.sum sees it
SumLines == scanLines(sumFile.content)

\* the contents of the *.sql files of the migrations directory, appended in
\* ascending order of the seconds that name them
RECURSIVE DirectoryContent(_)
DirectoryContent(seconds) ==
  IF seconds = {} THEN <<>>
  ELSE LET last == CHOOSE t \in seconds : \A u \in seconds : u <= t
       IN DirectoryContent(seconds \ {last}) \o migrationFiles[last]

\* C13: after every successful generateMigration the first line of datara.sum
\* is calculateFileHash of the contents of all *.sql files of the migrations
\* directory, the file just written included, appended in ascending order of
\* their names.
GlobalHashInvariant ==
  recorded # <<>>
    => /\ sumFile.exists
       /\ Len(SumLines) >= 1
       /\ SumLines[1] = calculateFileHash(DirectoryContent(DOMAIN migrationFiles))
       /\ recorded[Len(recorded)].name \in DOMAIN migrationFiles

GlobalHashInvariantWitness ==
  /\ runs = 2
  /\ ~failed
  /\ Cardinality(DOMAIN migrationFiles) = 2
  /\ migrationFiles[0] # migrationFiles[1]
  /\ migrationFiles[0] # <<>>
  /\ SumLines[1] = calculateFileHash(migrationFiles[0] \o migrationFiles[1])

\* the seconds that name the migration files the runs so far have recorded,
\* and the content last written under the name of second t
RecordedSeconds == {recorded[k].name : k \in 1..Len(recorded)}

LastWritten(t) ==
  recorded[CHOOSE k \in 1..Len(recorded) :
             /\ recorded[k].name = t
             /\ \A j \in (k + 1)..Len(recorded) : recorded[j].name # t].content

\* the entry lines the ledger is expected to hold for a set of seconds, in
\* ascending order of the file names
RECURSIVE ExpectedEntries(_)
ExpectedEntries(seconds) ==
  IF seconds = {} THEN <<>>
  ELSE LET last == CHOOSE t \in seconds : \A u \in seconds : u <= t
       IN Append(ExpectedEntries(seconds \ {last}),
                 TimestampName(last) \o <<" ">> \o calculateFileHash(LastWritten(last)))

\* C14: after any sequence of successful generateMigration calls the lines of
\* datara.sum after the first are one `<filename> <hash>` line per migration
\* file name recorded so far, in ascending order of the names, with the hash
\* of the content last written under the name; and readChecksumFile returns
\* the map writeChecksumFile was given.
ManifestEntries ==
  recorded # <<>>
    => /\ SubSeq(SumLines, 2, Len(SumLines)) = ExpectedEntries(RecordedSeconds)
       /\ sumFile.content[Len(sumFile.content)] = "\n"
       /\ readChecksumFile(sumFile) = checksums
       /\ DOMAIN checksums = {TimestampName(t) : t \in RecordedSeconds}

ManifestEntriesWitness ==
  /\ Len(recorded) = 2
  /\ recorded[1].name # recorded[2].name
  /\ recorded[1].content # recorded[2].content
  /\ Len(SumLines) = 3
  /\ Cardinality(DOMAIN readChecksumFile(sumFile)) = 2

\* the positions at which the last run wrote a file
WrittenAt(file) == {i \in 1..Len(writes) : writes[i] = file}

\* C15: in a run that produces a migration, the migration file is written
\* before the persisted schema state is overwritten, and the checksum ledger
\* is updated after both.
WriteOrdering ==
  (runs > 0 /\ ~failed /\ migration # <<>>)
    => /\ \A i \in WrittenAt("migration") : \A j \in WrittenAt("schema.sql") : i < j
       /\ \A k \in WrittenAt("datara.sum") :
            \A i \in WrittenAt("migration") \cup WrittenAt("schema.sql") : i < k

\* C16: in the orchestrator of datara.sum, a run whose oracle output is that
\* of the last successful run before it writes no new migration file and
\* leaves datara.sum as it was.
LedgerNoChangeNoMigration ==
  (runs > 0 /\ ~failed /\ before.lastGood = [valid |-> TRUE, decl |-> oracle])
    => /\ migrationFiles = before.migrationFiles
       /\ sumFile = before.sumFile

\* C17: the migration file of a run has a name that no earlier run gave its
\* file, so no run overwrites the file of an earlier run, two runs in one
\* second of the clock included.
OneFilePerRun ==
  \A j \in 1..Len(recorded) : \A k \in 1..(j - 1) : recorded[k].name # recorded[j].name

\* how many times a text occurs in another
Occurrences(s, sub) == Len(Split(s, sub)) - 1

\* the names written after each occurrence of a prefix, up to the grave
\* accent that closes them, in the order of the text
NamesAfter(s, prefix) ==
  LET pieces == Split(s, prefix)
  IN [k \in 1..(Len(pieces) - 1) |-> Slice(pieces[k + 1], 0, Index(pieces[k + 1], <<BQ>>))]

\* the CREATE TABLE statements of a text ToSQL returned
CreateStatements(doc) ==
  LET body == AfterPrefix(UpSection(doc), <<"-","-"," ","m","i","g","r","a","t","e",":","u","p","\n","\n">>)
  IN IF body = <<>> THEN <<>> ELSE Split(body, <<"\n","\n">>)

StatementLines(i) == Split(CreateStatements(text)[i], <<"\n">>)

IsIndexLine(line) == HasPrefix(line, <<" "," ","K","E","Y"," ",BQ>>) \/ HasPrefix(line, <<" "," ","U","N","I","Q","U","E"," ","K","E","Y"," ",BQ>>)

\* an index or foreign key clause names the column tuple cols
OverColumns(line, keyword, cols) ==
  Contains(line, keyword \o <<" ","(",BQ>> \o Join(cols, <<BQ,",",BQ>>) \o <<BQ,")">>)

IndexClauses(i, cols) ==
  {k \in 1..Len(StatementLines(i)) :
     /\ IsIndexLine(StatementLines(i)[k])
     /\ OverColumns(StatementLines(i)[k], <<BQ>>, cols)}

ForeignKeyClauses(i, fk) ==
  {k \in 1..Len(StatementLines(i)) :
     /\ HasPrefix(StatementLines(i)[k], <<" "," ","C","O","N","S","T","R","A","I","N","T"," ",BQ>>)
     /\ OverColumns(StatementLines(i)[k], <<" ","F","O","R","E","I","G","N"," ","K","E","Y">>, fk.Columns)
     /\ Contains(StatementLines(i)[k], <<")"," ","R","E","F","E","R","E","N","C","E","S"," ",BQ>> \o fk.ReferenceTable \o <<BQ," ","(">>)}

\* C19: in the CREATE TABLE text of a table every column tuple of its indexes
\* is in exactly one KEY or UNIQUE KEY clause, the unique clauses before the
\* others, and every (referenced table, owning columns) pair of its foreign
\* keys is in exactly one CONSTRAINT clause; indexes over different column
\* tuples are all written.
ConstraintDedup ==
  "ToSQL" \in returned
    => \A i \in 1..Len(model.Tables) :
         LET table == model.Tables[i]
             lines == StatementLines(i)
         IN /\ \A x \in 1..Len(table.Indexes) :
                 Cardinality(IndexClauses(i, table.Indexes[x].Columns)) = 1
            /\ \A x \in 1..Len(table.ForeignKeys) :
                 Cardinality(ForeignKeyClauses(i, table.ForeignKeys[x])) = 1
            /\ \A p, q \in 1..Len(lines) :
                 (p < q /\ IsIndexLine(lines[p]) /\ IsIndexLine(lines[q]))
                   => ~(HasPrefix(lines[p], <<" "," ","K","E","Y"," ",BQ>>) /\ HasPrefix(lines[q], <<" "," ","U","N","I","Q","U","E"," ","K","E","Y"," ",BQ>>))

\* the entries of a formatted DDL text: its lines without the indentation and
\* without the comma that separates an entry from the next
EntryLines(ddl) ==
  LET lines == Split(ddl, <<"\n">>)
  IN {TrimRight(TrimSpace(lines[k]), {","}) : k \in 1..Len(lines)}

\* C20: where the pipeline separates the body of a CREATE TABLE into entries,
\* a comma inside parentheses ends no entry: every entry of the oracle's
\* statement is one entry of the formatted text, and a column added to a
\* table is added with its whole definition.
ParenthesisAwareSeparation ==
  /\ \A i \in newDecl.tables :
       \A k \in 1..Len(TableVariants[i].entries) :
         TableVariants[i].entries[k] \in EntryLines(newSchema)
  /\ calls > 0
       => \A t \in TablesOfBoth :
            \A e \in ColumnEntries(VariantOf(newDecl, t)) :
              EntryName(e) \notin EntryNames(VariantOf(oldDecl, t))
                => \E i \in 1..Len(upStatements) : AddsEntry(upStatements[i], t, e)

(***************************************************************************)
(* Claims about the naming and type-validation functions.                  *)
(***************************************************************************)
\* the base type names the switch of ValidateSQLType accepts
SupportedTypeNames ==
  {<<"T","I","N","Y","I","N","T">>, <<"S","M","A","L","L","I","N","T">>, <<"M","E","D","I","U","M","I","N","T">>, <<"I","N","T">>, <<"I","N","T","E","G","E","R">>, <<"B","I","G","I","N","T">>,
   <<"D","E","C","I","M","A","L">>, <<"N","U","M","E","R","I","C">>, <<"F","L","O","A","T">>, <<"D","O","U","B","L","E">>, <<"R","E","A","L">>, <<"V","A","R","C","H","A","R">>, <<"C","H","A","R">>,
   <<"T","E","X","T">>, <<"T","I","N","Y","T","E","X","T">>, <<"M","E","D","I","U","M","T","E","X","T">>, <<"L","O","N","G","T","E","X","T">>, <<"D","A","T","E","T","I","M","E">>, <<"T","I","M","E","S","T","A","M","P">>,
   <<"D","A","T","E">>, <<"T","I","M","E">>, <<"B","O","O","L","E","A","N">>, <<"B","O","O","L">>, <<"E","N","U","M">>, <<"J","S","O","N">>}

\* the type string upper-cased, trimmed, and without UNSIGNED
NormalizedType(s) ==
  LET upper == ToUpper(TrimSpace(s))
  IN IF Contains(upper, <<"U","N","S","I","G","N","E","D">>) THEN TrimSpace(ReplaceAll(upper, <<"U","N","S","I","G","N","E","D">>, <<>>))
     ELSE upper

\* the base type name: the normalized type up to its first parenthesis
BaseTypeName(s) ==
  LET n == NormalizedType(s)
  IN IF Contains(n, <<"(">>) THEN Slice(n, 0, Index(n, <<"(">>)) ELSE n

\* the text between the first opening parenthesis and the closing one after it
\* (to the end of the string when none follows)
TypeParameters(s) ==
  LET n == NormalizedType(s)
      rest == From(n, Index(n, <<"(">>) + 1)
  IN IF ~Contains(n, <<"(">>) THEN <<>>
     ELSE IF Contains(rest, <<")">>) THEN Slice(rest, 0, Index(rest, <<")">>)) ELSE rest

\* a parameter that is a positive decimal number, or 0 for any other text
ParameterValue(s) ==
  IF s # <<>> /\ \A i \in 1..Len(s) : \E k \in 1..10 : Digits[k] = s[i] THEN DigitsValue(s)
  ELSE 0

\* the parameters as the claim reads them: a single length, or a pair
ReadsParameters(s, r) ==
  LET params == TypeParameters(s)
      parts == Split(params, <<",">>)
  IN /\ (BaseTypeName(s) \in {<<"V","A","R","C","H","A","R">>, <<"C","H","A","R">>, <<"I","N","T">>, <<"B","I","G","I","N","T">>}
           /\ ParameterValue(params) > 0)
        => r.Length = ParameterValue(params)
     /\ (BaseTypeName(s) \in {<<"D","E","C","I","M","A","L">>, <<"N","U","M","E","R","I","C">>} /\ Len(parts) = 2
           /\ ParameterValue(TrimSpace(parts[1])) > 0
           /\ ParameterValue(TrimSpace(parts[2])) > 0)
        => /\ r.Precision = ParameterValue(TrimSpace(parts[1]))
           /\ r.Scale = ParameterValue(TrimSpace(parts[2]))

\* C21: every call of ValidateSQLType returns a SQLType or an error, the error
\* exactly when the base type name is not a supported one, and the
\* parenthesized parameters come back as the length or as precision and scale
ValidationOutcome ==
  called = "ValidateSQLType" =>
    /\ answer.kind \in {"ok", "error"}
    /\ (answer.kind = "error") <=> (BaseTypeName(argument) \notin SupportedTypeNames)
    /\ answer.kind = "ok" => ReadsParameters(argument, answer)

\* the same on the type strings whose parentheses are closed in order
ValidationOutcomeClosed ==
  (called = "ValidateSQLType"
     /\ (Contains(NormalizedType(argument), <<"(">>)
           => Index(NormalizedType(argument), <<")">>) > Index(NormalizedType(argument), <<"(">>)))
    => ValidationOutcome

\* the snake-case rule: an underscore before an uppercase letter that is not
\* the first character and has a lowercase letter before or after it; every
\* letter lowercased
SnakeCaseRule(s) ==
  LET upperAt(i) == \E k \in 1..26 : UpperLetters[k] = s[i]
      lowerAt(i) == i >= 1 /\ i <= Len(s) /\ \E k \in 1..26 : LowerLetters[k] = s[i]
      lowered(i) == IF upperAt(i) THEN LowerLetters[CHOOSE k \in 1..26 : UpperLetters[k] = s[i]]
                    ELSE s[i]
      piece(i) == IF i > 1 /\ upperAt(i) /\ (lowerAt(i - 1) \/ lowerAt(i + 1))
                  THEN <<"_", lowered(i)>> ELSE <<lowered(i)>>
  IN Join([i \in 1..Len(s) |-> piece(i)], <<>>)

\* a name with no uppercase letter
IsSnakeCase(s) == \A i \in 1..Len(s) : \A k \in 1..26 : UpperLetters[k] # s[i]

\* C22: every toSnakeCase returns its argument rewritten by the snake-case rule,
\* so that a run of capitals stays together, and returns a snake_case name
\* unchanged
SnakeCase ==
  called \in {"toSnakeCase", "toSnakeCaseOfParser"} =>
    /\ answer = SnakeCaseRule(argument)
    /\ IsSnakeCase(argument) => answer = argument

\* the same for the toSnakeCase of DefaultParser alone
SnakeCaseOfParser ==
  called = "toSnakeCaseOfParser" =>
    /\ answer = SnakeCaseRule(argument)
    /\ IsSnakeCase(argument) => answer = argument

\* the pluralization rule
PluralRule(s) ==
  IF s = <<>> THEN <<"s">>
  ELSE IF s[Len(s)] = "s" THEN s \o <<"e","s">>
  ELSE IF s[Len(s)] = "y" THEN SubSeq(s, 1, Len(s) - 1) \o <<"i","e","s">>
  ELSE s \o <<"s">>

\* the struct types among the models ParseSchema was given, in order
ParsedTypes(models) ==
  LET RECURSIVE from(_)
      from(i) == IF i > Len(models) THEN <<>>
                 ELSE (IF models[i].kind = "string" THEN <<>> ELSE <<models[i].type>>)
                      \o from(i + 1)
  IN from(1)

\* the names of a table follow the pluralization rule: its own name from the
\* type name, and each referenced table from the column name without _id
PluralNames(table, type) ==
  /\ table.Name = PluralRule(SnakeCaseRule(type.Name))
  /\ \A j \in 1..Len(table.ForeignKeys) :
       LET fk == table.ForeignKeys[j]
       IN /\ HasSuffix(fk.Columns[1], <<"_","i","d">>)
          /\ fk.ReferenceTable
               = PluralRule(SubSeq(fk.Columns[1], 1, Len(fk.Columns[1]) - 3))

\* C23: pluralize and the table names and referenced-table names parseStruct
\* builds follow the pluralization rule
Pluralization ==
  /\ called = "pluralize" => answer = PluralRule(argument)
  /\ called = "ParseSchema" =>
       /\ Len(answer.Tables) = Len(ParsedTypes(argument))
       /\ \A k \in 1..Len(answer.Tables) :
            PluralNames(answer.Tables[k], ParsedTypes(argument)[k])

\* the same for pluralize alone
PluralizationOfPluralize ==
  called = "pluralize" => answer = PluralRule(argument)

\* the same for the types whose names, and whose reference columns, end
\* neither in s nor in y
PluralizationRegular ==
  LET regular(s) == s = <<>> \/ s[Len(s)] \notin {"s", "y"}
  IN (called = "ParseSchema"
        /\ \A k \in 1..Len(answer.Tables) :
             /\ regular(SnakeCaseRule(ParsedTypes(argument)[k].Name))
             /\ \A j \in 1..Len(answer.Tables[k].ForeignKeys) :
                  LET c == answer.Tables[k].ForeignKeys[j].Columns[1]
                  IN regular(SubSeq(c, 1, Len(c) - 3)))
       => Pluralization

\* C26: in the Schema ParseSchema returns, no table holds two indexes of the
\* same name
UniqueIndexNames ==
  called = "ParseSchema" =>
    \A k \in 1..Len(answer.Tables) :
      LET indexes == answer.Tables[k].Indexes
      IN \A i, j \in 1..Len(indexes) : i # j => indexes[i].Name # indexes[j].Name

\* the same for the tables without a foreign key
UniqueIndexNamesNoReference ==
  (called = "ParseSchema" /\ \A k \in 1..Len(answer.Tables) : answer.Tables[k].ForeignKeys = <<>>)
    => UniqueIndexNames

\* a table with a unique index and no foreign key has been parsed
UniqueIndexNamesNoReferenceSeen ==
  /\ called = "ParseSchema"
  /\ \A k \in 1..Len(answer.Tables) : answer.Tables[k].ForeignKeys = <<>>
  /\ \E k \in 1..Len(answer.Tables) : answer.Tables[k].Indexes # <<>>

(***************************************************************************)
(* Claims about the order and the pairing of the statements of the diff.   *)
(***************************************************************************)
\* the table a statement of the diff is about: the first quoted name in it
StatementTable(stmt) ==
  LET open == Index(stmt, <<"\"">>)
  IN Slice(stmt, open + 1, open + 1 + Index(From(stmt, open + 1), <<"\"">>))

\* the column an ALTER TABLE statement of the diff is about: its sixth word,
\* without quotes
StatementColumn(stmt) == Normal(Split(stmt, <<" ">>)[6])

IsAlterTable(stmt) == HasPrefix(stmt, <<"A","L","T","E","R"," ","T","A","B","L","E"," ">>)

\* the phase of the diff a table belongs to: 1 dropped, 2 new, 3 in both schemas
TablePhase(t) ==
  IF t \notin DeclaredTables(newDecl) THEN 1
  ELSE IF t \notin DeclaredTables(oldDecl) THEN 2
  ELSE 3

\* the phase of the comparison of table t a column belongs to: 1 dropped,
\* 2 added, 3 in both definitions
ColumnPhase(t, c) ==
  IF c \notin EntryNames(VariantOf(newDecl, t)) THEN 1
  ELSE IF c \notin EntryNames(VariantOf(oldDecl, t)) THEN 2
  ELSE 3

\* the statements of a list are in the order of the phases
InPhaseOrder(statements) ==
  \A i, j \in 1..Len(statements) :
    i < j =>
      LET a == statements[i]
          b == statements[j]
      IN /\ TablePhase(StatementTable(a)) <= TablePhase(StatementTable(b))
         /\ (IsAlterTable(a) /\ IsAlterTable(b) /\ StatementTable(a) = StatementTable(b))
              => ColumnPhase(StatementTable(a), StatementColumn(a))
                   <= ColumnPhase(StatementTable(b), StatementColumn(b))

\* C24: in the up list and in the down list of generateSchemaDiff the
\* statements of dropped tables come first, then those of new tables, then
\* those of modified tables, and within a modified table the statements of
\* dropped columns come before those of added columns, which come before
\* those of changed columns
PhaseOrder ==
  calls > 0 => (InPhaseOrder(upStatements) /\ InPhaseOrder(downStatements))

\* a diff with a dropped, a new and a modified table, the modified one with a
\* dropped, an added and a changed column
PhaseOrderWitness ==
  /\ calls > 0
  /\ {TablePhase(StatementTable(upStatements[i])) : i \in 1..Len(upStatements)} = {1, 2, 3}
  /\ \E t \in TablesOfBoth :
       {ColumnPhase(t, StatementColumn(upStatements[i])) :
          i \in {k \in 1..Len(upStatements) :
                   IsAlterTable(upStatements[k]) /\ StatementTable(upStatements[k]) = t}}
         = {1, 2, 3}
  /\ InPhaseOrder(upStatements)
  /\ InPhaseOrder(downStatements)

\* down is the inverse of up: the two statements name the same table and,
\* for a column statement, the same column; a table dropped by one is created
\* by the other, a column added by one is dropped by the other, and a type
\* change to the new type is paired with one to the old type
IsInverse(up, down) ==
  LET t == StatementTable(up)
      alterColumn(c, type) ==
        <<"A","L","T","E","R"," ","T","A","B","L","E"," ">> \o Quote(t) \o <<" ","A","L","T","E","R"," ","C","O","L","U","M","N"," ">> \o Quote(c) \o <<" ","T","Y","P","E"," ">> \o type
  IN /\ StatementTable(down) = t
     /\ \/ /\ up = ExpectedDrop(t)
           /\ IsCreateTableOf(down, t, oldSchema)
        \/ /\ IsCreateTableOf(up, t, newSchema)
           /\ down = ExpectedDrop(t)
        \/ /\ IsAlterTable(up) /\ IsAlterTable(down)
           /\ LET c == StatementColumn(up)
              IN /\ StatementColumn(down) = c
                 /\ \/ AddsColumn(up, t, c) /\ down = ExpectedDropColumn(t, c)
                    \/ up = ExpectedDropColumn(t, c) /\ AddsColumn(down, t, c)
                    \/ /\ c \in EntryNames(VariantOf(oldDecl, t)) \cap EntryNames(VariantOf(newDecl, t))
                       /\ up = alterColumn(c, EntryType(EntryOf(VariantOf(newDecl, t), c)))
                       /\ down = alterColumn(c, EntryType(EntryOf(VariantOf(oldDecl, t), c)))

\* C27: the up list and the down list of generateSchemaDiff have the same
\* length, and the statement at each position of the down list is the inverse
\* of the statement at that position of the up list
MatchedUpDown ==
  calls > 0 =>
    /\ Len(upStatements) = Len(downStatements)
    /\ \A i \in 1..Len(upStatements) : IsInverse(upStatements[i], downStatements[i])

\* a diff that drops and creates a table and adds, drops and retypes a column
MatchedUpDownWitness ==
  /\ calls > 0
  /\ Len(upStatements) = Len(downStatements)
  /\ \E i \in 1..Len(upStatements) : HasPrefix(upStatements[i], <<"D","R","O","P"," ","T","A","B","L","E"," ">>)
  /\ \E i \in 1..Len(upStatements) : HasPrefix(upStatements[i], <<"C","R","E","A","T","E"," ","T","A","B","L","E"," ">>)
  /\ \E i \in 1..Len(upStatements) : Contains(upStatements[i], <<" ","A","D","D"," ","C","O","L","U","M","N"," ">>)
  /\ \E i \in 1..Len(upStatements) : Contains(upStatements[i], <<" ","D","R","O","P"," ","C","O","L","U","M","N"," ">>)
  /\ \E i \in 1..Len(upStatements) :
       /\ Contains(upStatements[i], <<" ","A","L","T","E","R"," ","C","O","L","U","M","N"," ">>)
       /\ upStatements[i] # downStatements[i]
       /\ IsInverse(upStatements[i], downStatements[i])

\* the statements of a list, as a set
StatementSet(statements) == {statements[i] : i \in 1..Len(statements)}

\* the down statements of the calls generateSchemaDiff(newSchema, oldSchema)
SwappedDown ==
  {StatementSet(r.downStatements) : r \in generateSchemaDiff(newSchema, oldSchema)}

\* C28: the set of up statements of generateSchemaDiff(A, B) equals the set
\* of down statements of generateSchemaDiff(B, A), the column definition of
\* an ADD COLUMN statement included
SwapSymmetry ==
  calls > 0 => \A down \in SwappedDown : StatementSet(upStatements) = down

\* the same for the diffs that add no decimal column
SwapSymmetryNoDecimal ==
  (/\ calls > 0
   /\ \A i \in 1..Len(upStatements) :
        ~(Contains(upStatements[i], <<" ","A","D","D"," ","C","O","L","U","M","N"," ">>) /\ Contains(upStatements[i], <<"d","e","c","i","m","a","l">>)))
  => \A down \in SwappedDown : StatementSet(upStatements) = down

\* a diff that adds a column of another type, on which the two sets agree
SwapSymmetryNoDecimalSeen ==
  /\ calls > 0
  /\ \E i \in 1..Len(upStatements) : Contains(upStatements[i], <<" ","A","D","D"," ","C","O","L","U","M","N"," ">>)
  /\ \A down \in SwappedDown : StatementSet(upStatements) = down

(***************************************************************************)
(* Claims about what compareTableDefinitions takes for a column.           *)
(***************************************************************************)
\* the entries of the body of a CREATE TABLE statement
BodyEntries(tableDef) ==
  LET entries == splitKeepingParentheses(
                   Slice(tableDef, Index(tableDef, <<"(">>) + 1, LastIndex(tableDef, <<")">>)))
  IN {TrimSpace(entries[i]) : i \in 1..Len(entries)}

\* the columns a definition declares: its entries that begin with a quoted
\* name; a constraint entry begins with a keyword
DeclaredColumns(tableDef) ==
  {EntryName(e) : e \in {x \in BodyEntries(tableDef) : x # <<>> /\ x[1] = "\""}}

\* the entries of a definition that are constraints other than the primary key
ConstraintEntries(tableDef) ==
  {e \in BodyEntries(tableDef) :
     e # <<>> /\ e[1] # "\"" /\ ~HasPrefix(e, <<"P","R","I","M","A","R","Y"," ","K","E","Y">>)}

\* C30: every ALTER TABLE statement compareTableDefinitions emits names a
\* column declared in the old or the new definition of the table, and what it
\* reads as the columns of a definition are the declared columns: no
\* constraint entry is among them
OnlyColumns ==
  called = "compareTableDefinitions" =>
    LET oldDef == argument[2]
        newDef == argument[3]
        declared == DeclaredColumns(oldDef) \cup DeclaredColumns(newDef)
    IN /\ \A i \in 1..Len(answer.up) : StatementColumn(answer.up[i]) \in declared
       /\ \A i \in 1..Len(answer.down) : StatementColumn(answer.down[i]) \in declared
       /\ DOMAIN parseColumns(oldDef) = DeclaredColumns(oldDef)
       /\ DOMAIN parseColumns(newDef) = DeclaredColumns(newDef)

\* two constraint entries of one definition are kept under two names
ConstraintsNotMerged ==
  called = "compareTableDefinitions" =>
    \A e, f \in ConstraintEntries(argument[3]) :
      e # f => \E c, d \in DOMAIN parseColumns(argument[3]) :
                 /\ c # d
                 /\ parseColumns(argument[3])[c] = e
                 /\ parseColumns(argument[3])[d] = f

\* the same as C30 for definitions whose only constraint is the primary key
OnlyColumnsPlain ==
  (/\ called = "compareTableDefinitions"
   /\ ConstraintEntries(argument[2]) = {}
   /\ ConstraintEntries(argument[3]) = {})
  => LET declared == DeclaredColumns(argument[2]) \cup DeclaredColumns(argument[3])
     IN /\ \A i \in 1..Len(answer.up) : StatementColumn(answer.up[i]) \in declared
        /\ \A i \in 1..Len(answer.down) : StatementColumn(answer.down[i]) \in declared
        /\ DOMAIN parseColumns(argument[2]) = DeclaredColumns(argument[2])
        /\ DOMAIN parseColumns(argument[3]) = DeclaredColumns(argument[3])

\* a comparison of two such definitions that emits a statement
OnlyColumnsPlainSeen ==
  /\ called = "compareTableDefinitions"
  /\ ConstraintEntries(argument[2]) = {}
  /\ ConstraintEntries(argument[3]) = {}
  /\ Len(answer.up) > 0

(***************************************************************************)
(* Claims about CompareSchema.                                             *)
(***************************************************************************)
\* the names of the tables of a Schema, and the table of a name
SchemaTableNames(s) == {s.Tables[k].Name : k \in 1..Len(s.Tables)}

SchemaTable(s, name) == s.Tables[CHOOSE k \in 1..Len(s.Tables) : s.Tables[k].Name = name]

SchemaColumnNames(t) == {t.Columns[k].Name : k \in 1..Len(t.Columns)}

\* a name as a statement can write it: bare, or between two quotation marks
Written(name) == {name, <<BQ>> \o name \o <<BQ>>, Quote(name)}

\* the text holds a DROP TABLE statement of the table
DropsTable(sql, t) ==
  \E n \in Written(t) : Contains(sql, <<"D","R","O","P"," ","T","A","B","L","E"," ","I","F"," ","E","X","I","S","T","S"," ">> \o n \o <<" ","C","A","S","C","A","D","E">>)

\* the text holds a DROP COLUMN statement of the column of the table
DropsColumn(sql, t, c) ==
  \E n \in Written(t), m \in Written(c) :
    Contains(sql, <<"A","L","T","E","R"," ","T","A","B","L","E"," ">> \o n \o <<" ","D","R","O","P"," ","C","O","L","U","M","N"," ">> \o m)

\* the text holds an ADD COLUMN statement of the column of the table
AddsColumnOfModel(sql, t, c) ==
  \E n \in Written(t), m \in Written(c) :
    Contains(sql, <<"A","L","T","E","R"," ","T","A","B","L","E"," ">> \o n \o <<" ","A","D","D"," ","C","O","L","U","M","N"," ">> \o m \o <<" ">>)

\* C25: when CompareSchema compares a Schema with a non-empty old Schema,
\* its text holds a DROP TABLE IF EXISTS ... CASCADE statement for every
\* table of old that the new Schema lacks, and an ALTER TABLE ... DROP COLUMN
\* statement for every column of the old version of a table that its new
\* version lacks
ModelDiffDrops ==
  ("CompareSchema" \in returned /\ Len(oldModel.Tables) > 0) =>
    /\ \A t \in SchemaTableNames(oldModel) \ SchemaTableNames(model) :
         DropsTable(compared, t)
    /\ \A t \in SchemaTableNames(oldModel) \cap SchemaTableNames(model) :
         \A c \in SchemaColumnNames(SchemaTable(oldModel, t))
                    \ SchemaColumnNames(SchemaTable(model, t)) :
           DropsColumn(compared, t, c)

\* the first half of C25 on its own: the tables of old the new Schema lacks
ModelDiffDropsTables ==
  ("CompareSchema" \in returned /\ Len(oldModel.Tables) > 0) =>
    \A t \in SchemaTableNames(oldModel) \ SchemaTableNames(model) :
      DropsTable(compared, t)

\* the second half of C25 on its own: the columns of the old version of a
\* table its new version lacks
ModelDiffDropsColumns ==
  ("CompareSchema" \in returned /\ Len(oldModel.Tables) > 0) =>
    \A t \in SchemaTableNames(oldModel) \cap SchemaTableNames(model) :
      \A c \in SchemaColumnNames(SchemaTable(oldModel, t))
                 \ SchemaColumnNames(SchemaTable(model, t)) :
        DropsColumn(compared, t, c)

\* what CompareSchema does report: the columns the new version of a table adds
ModelDiffAdds ==
  ("CompareSchema" \in returned /\ Len(oldModel.Tables) > 0) =>
    \A t \in SchemaTableNames(oldModel) \cap SchemaTableNames(model) :
      \A c \in SchemaColumnNames(SchemaTable(model, t))
                 \ SchemaColumnNames(SchemaTable(oldModel, t)) :
        /\ AddsColumnOfModel(compared, t, c)
        /\ DropsColumn(compared, t, c)

\* a comparison that adds a column
ModelDiffAddsSeen ==
  /\ "CompareSchema" \in returned
  /\ Len(oldModel.Tables) > 0
  /\ \E t \in SchemaTableNames(oldModel) \cap SchemaTableNames(model) :
       SchemaColumnNames(SchemaTable(model, t))
         \ SchemaColumnNames(SchemaTable(oldModel, t)) # {}

(***************************************************************************)
(* Claims about two runs on one migrations directory.                      *)
(***************************************************************************)
\* both runs have returned
BothDone == pc # <<>> /\ \A p \in DOMAIN pc : pc[p] = "done"

\* datara.sum has an entry for the migration file run p wrote
HasEntryOf(p) ==
  \E k \in 2..Len(SumLines) :
    HasPrefix(SumLines[k], TimestampName(local[p].newFile) \o <<" ">>)

\* the global hash of datara.sum covers every *.sql file of the directory
CoversDirectory ==
  /\ Len(SumLines) >= 1
  /\ SumLines[1] = calculateFileHash(DirectoryContent(DOMAIN migrationFiles))

\* C29: after two runs on one migrations directory have both returned,
\* datara.sum lacks the entry of the migration file of one of them, or its
\* global hash does not cover every *.sql file of the directory, only if
\* the two runs executed at the same time; such a state is reachable
\* (ManifestRaceLost, ManifestRaceStaleHash), and none is when the runs
\* execute one after the other
ManifestRace ==
  (/\ BothDone
   /\ \/ \E p \in DOMAIN pc : ~HasEntryOf(p)
      \/ ~CoversDirectory)
  => overlapped

\* two runs one after the other, in different seconds, have both returned
ManifestRaceSequential ==
  /\ BothDone
  /\ ~overlapped
  /\ local[1].newFile # local[2].newFile
  /\ \A p \in DOMAIN pc : HasEntryOf(p)
  /\ CoversDirectory

\* two runs at the same time have both returned, and datara.sum lacks the
\* entry of the migration file one of them wrote
ManifestRaceLost ==
  /\ BothDone
  /\ overlapped
  /\ \E p \in DOMAIN pc : ~HasEntryOf(p)

\* two runs at the same time have both returned, datara.sum holds both
\* entries, and its global hash does not cover every file of the directory
ManifestRaceStaleHash ==
  /\ BothDone
  /\ overlapped
  /\ \A p \in DOMAIN pc : HasEntryOf(p)
  /\ ~CoversDirectory

====
